---- MODULE Spec2Model ----
(***************************************************************************)
(* ResumeForge: the extraction-and-scoring pipeline of backend/app.        *)
(*                                                                         *)
(* The pipeline is a collection of pure functions.  Each function is an    *)
(* operator computed as the Python computes it; each specification draws   *)
(* the function's inputs from a bounded set in its initial predicate and   *)
(* has one action per call.                                                *)
(*                                                                         *)
(* Representation of text.                                                 *)
(*  - clean_text works on characters: a text is a sequence of one-         *)
(*    character strings.                                                   *)
(*  - the segmenter, the extractors and the scorers work on tokens: a      *)
(*    text is a sequence of tokens separated by single blanks, the         *)
(*    line feed being the token NL.  A regular expression of the source    *)
(*    is evaluated over the tokens: \d{4} is a token of Years, \w+ a       *)
(*    token of word characters, and so on.                                 *)
(***************************************************************************)
EXTENDS Integers, Sequences, FiniteSets, TLC

VARIABLES
    cleanIn,    \* clean_text: the text passed in (characters)
    cleanOut,   \* clean_text: the successive results, each fed back in
    parseIn,    \* split_into_sections / parse: the text passed in (tokens)
    segOut,     \* split_into_sections: <<>> before the call, <<map>> after
    parseOut,   \* parse: <<>> before the call, <<Resume>> after
    anaIn,      \* ResumeAnalyzer: the Resume passed in
    anaOut,     \* ResumeAnalyzer: <<>> before a call, <<[op, result]>> after
    anaPrev,    \* the score and average before a description line was appended
    expIn,      \* _extract_experience: the section text passed in (tokens)
    expOut,     \* _extract_experience: <<>> before the call, <<outcome>> after
    matchIn,    \* optimize, match: the Resume and the job description
    matchOut,   \* optimize, match: the runs so far, [op, hash_seed, result]
    gapIn,      \* analyze_gaps: the Resume, the job description, the hash seed
    gapOut,     \* analyze_gaps: <<>> before the call, <<result>> after
    scoreIn,    \* _calculate_overall_score: the two analyses passed in
    scoreOut,   \* _calculate_overall_score: <<>> before the call, <<score>> after
    fmtIn,      \* FormatOptimizer: the Resume passed in
    fmtOut,     \* FormatOptimizer: <<>> before a call, <<[op, result]>> after
    skillsIn,   \* _extract_skills: the skills section and the full text
    skillsOut,  \* _extract_skills: <<>> before the call, <<skills>> after
    resumes,    \* ResumeStorage.resumes: the stored Resume of each id
    next_id,    \* the number of resumes uploaded so far; ids are not reused
    recorded,   \* the industry and tags at the time a snapshot was recorded
    getOut,     \* get_version: <<>> before a call, <<[id, version, result]>> after
    callOut     \* save or a scoring component on a stored resume: <<[op, id, before]>>

cleanVars == <<cleanIn, cleanOut>>
parseVars == <<parseIn, segOut, parseOut>>
expVars == <<expIn, expOut>>
anaVars == <<anaIn, anaOut, anaPrev>>
matchVars == <<matchIn, matchOut>>
gapVars == <<gapIn, gapOut>>
scoreVars == <<scoreIn, scoreOut>>
fmtVars == <<fmtIn, fmtOut>>
skillVars == <<skillsIn, skillsOut>>
storeVars == <<resumes, next_id, recorded, getOut, callOut>>
vars ==
    <<cleanVars, parseVars, expVars, anaVars, matchVars, gapVars, scoreVars,
      fmtVars, skillVars, storeVars>>

\* The value of a variable that a specification does not use.
Idle == <<>>

CleanIdle == cleanIn = Idle /\ cleanOut = Idle
ParseIdle == parseIn = Idle /\ segOut = Idle /\ parseOut = Idle
ExpIdle == expIn = Idle /\ expOut = Idle
AnaIdle == anaIn = Idle /\ anaOut = Idle /\ anaPrev = Idle
MatchIdle == matchIn = Idle /\ matchOut = Idle
GapIdle == gapIn = Idle /\ gapOut = Idle
ScoreIdle == scoreIn = Idle /\ scoreOut = Idle
FmtIdle == fmtIn = Idle /\ fmtOut = Idle
SkillIdle == skillsIn = Idle /\ skillsOut = Idle
StoreIdle ==
    /\ resumes = Idle
    /\ next_id = 0
    /\ recorded = Idle
    /\ getOut = Idle
    /\ callOut = Idle

\* Python's None, where the other values are tokens or names.
None == "None"

\* An optional text (summary, raw_text): <<>> is None and <<t>> is the
\* text t.
NoText == <<>>
Text(t) == <<t>>

(***************************************************************************)
(* Generic helpers                                                         *)
(***************************************************************************)

\* All sequences over S of length 0..n.
SeqsUpTo(S, n) == UNION {[1..k -> S] : k \in 0..n}

Last(s) == s[Len(s)]

\* The elements of a list, as a set.
Elements(list) == {list[i] : i \in 1..Len(list)}

(***************************************************************************)
(* utils/text_processor.py: clean_text                                     *)
(***************************************************************************)

\* Longest text drawn for clean_text.
MaxTextLen == 5

\* The characters the texts are drawn from: a word character, the two
\* whitespace characters a resume holds, and a character clean_text removes.
CleanAlphabet == {"a", " ", "\n", "@"}

\* \s of the regular expressions.
IsSpace(c) == c \in {" ", "\n", "\t", "\r"}

\* \w of the regular expressions, on the characters of the model.
IsWordChar(c) == c \in {"a", "b", "c", "0", "1", "2", "_"}

\* The class [\w\s\.\,\;\:\-\'\"\(\)] whose complement is removed.
IsKept(c) ==
    \/ IsWordChar(c)
    \/ IsSpace(c)
    \/ c \in {".", ",", ";", ":", "-", "'", "\"", "(", ")"}

\* re.sub(r'\s+', ' ', text): every maximal run of whitespace becomes one blank.
RECURSIVE CollapseWhitespace(_)
CollapseWhitespace(s) ==
    IF s = <<>> THEN <<>>
    ELSE IF IsSpace(Head(s))
         THEN IF Len(s) > 1 /\ IsSpace(s[2])
              THEN CollapseWhitespace(Tail(s))
              ELSE <<" ">> \o CollapseWhitespace(Tail(s))
         ELSE <<Head(s)>> \o CollapseWhitespace(Tail(s))

\* re.sub(r'[^\w\s\.\,\;\:\-\'\"\(\)]', '', text)
RemoveSpecial(s) == SelectSeq(s, IsKept)

RECURSIVE LStrip(_)
LStrip(s) ==
    IF s # <<>> /\ IsSpace(Head(s)) THEN LStrip(Tail(s)) ELSE s

RECURSIVE RStrip(_)
RStrip(s) ==
    IF s # <<>> /\ IsSpace(Last(s)) THEN RStrip(SubSeq(s, 1, Len(s) - 1)) ELSE s

\* str.strip()
Strip(s) == RStrip(LStrip(s))

clean_text(text) ==
    IF text = <<>> THEN <<>>
    ELSE Strip(RemoveSpecial(CollapseWhitespace(text)))

(***************************************************************************)
(* Token texts                                                             *)
(*                                                                         *)
(* A text is a sequence of tokens; consecutive tokens of a line are        *)
(* separated by one blank, and NL is the line feed.  A token holds no      *)
(* whitespace, so str.strip() of a line of tokens is the line itself and   *)
(* a blank line is the empty sequence.                                     *)
(***************************************************************************)

NL == "\n"

\* The letter-case forms <<lower, capitalized, upper>> of the tokens that
\* hold letters.  A token that is not listed holds no letter.
CaseForms ==
    { <<"experience", "Experience", "EXPERIENCE">>,
      <<"skills", "Skills", "SKILLS">>,
      <<"education", "Education", "EDUCATION">>,
      <<"summary", "Summary", "SUMMARY">>,
      <<"jane", "Jane", "JANE">>,
      <<"doe", "Doe", "DOE">>,
      <<"jane@x.com", "Jane@x.com", "JANE@X.COM">>,
      <<"engineer", "Engineer", "ENGINEER">>,
      <<"at", "At", "AT">>,
      <<"acme", "Acme", "ACME">>,
      <<"corp", "Corp", "CORP">>,
      <<"present", "Present", "PRESENT">>,
      <<"current", "Current", "CURRENT">>,
      <<"jan", "Jan", "JAN">>,
      <<"built", "Built", "BUILT">>,
      <<"systems", "Systems", "SYSTEMS">>,
      <<"growth", "Growth", "GROWTH">>,
      <<"python", "Python", "PYTHON">>,
      <<"sql", "Sql", "SQL">>,
      <<"aws", "Aws", "AWS">>,
      <<"grew", "Grew", "GREW">>,
      <<"increased", "Increased", "INCREASED">>,
      <<"served", "Served", "SERVED">>,
      <<"helped", "Helped", "HELPED">>,
      <<"revenue", "Revenue", "REVENUE">>,
      <<"through", "Through", "THROUGH">>,
      <<"streamlined", "Streamlined", "STREAMLINED">>,
      <<"operations", "Operations", "OPERATIONS">>,
      <<"worldwide", "Worldwide", "WORLDWIDE">>,
      <<"clients", "Clients", "CLIENTS">>,
      <<"years", "Years", "YEARS">>,
      <<"various", "Various", "VARIOUS">>,
      <<"teams", "Teams", "TEAMS">>,
      <<"requirements", "Requirements", "REQUIREMENTS">>,
      <<"project", "Project", "PROJECT">>,
      <<"management", "Management", "MANAGEMENT">>,
      <<"docker", "Docker", "DOCKER">>,
      <<"kubernetes", "Kubernetes", "KUBERNETES">> }

\* The tokens that have letters, each with the triple of its forms.
FormsOf ==
    [t \in UNION {{f[1], f[2], f[3]} : f \in CaseForms} |->
        CHOOSE f \in CaseForms : t \in {f[1], f[2], f[3]}]

\* str.lower() of a token.
Lower(t) == IF t \in DOMAIN FormsOf THEN FormsOf[t][1] ELSE t

\* str.upper() of a token.
Upper(t) == IF t \in DOMAIN FormsOf THEN FormsOf[t][3] ELSE t

LowerSeq(s) == [i \in 1..Len(s) |-> Lower(s[i])]
UpperSeq(s) == [i \in 1..Len(s) |-> Upper(s[i])]

\* str.split(sep) of a token text on a separator token: the pieces between
\* the separators ("".split(sep) is [""], one empty piece).
RECURSIVE SplitOn(_, _)
SplitOn(s, sep) ==
    IF \E i \in 1..Len(s) : s[i] = sep
    THEN LET i == CHOOSE j \in 1..Len(s) :
                     s[j] = sep /\ \A k \in 1..(j - 1) : s[k] # sep
         IN  <<SubSeq(s, 1, i - 1)>> \o SplitOn(SubSeq(s, i + 1, Len(s)), sep)
    ELSE <<s>>

\* sep.join(pieces)
RECURSIVE JoinWith(_, _)
JoinWith(pieces, sep) ==
    IF pieces = <<>> THEN <<>>
    ELSE IF Len(pieces) = 1 THEN pieces[1]
    ELSE pieces[1] \o <<sep>> \o JoinWith(Tail(pieces), sep)

\* dict: a function from the keys present to their values.
EmptyDict == <<>>
DictPut(d, k, v) ==
    [x \in (DOMAIN d) \cup {k} |-> IF x = k THEN v ELSE d[x]]
\* dict.get(k, '')
DictGet(d, k) == IF k \in DOMAIN d THEN d[k] ELSE <<>>

(***************************************************************************)
(* utils/text_processor.py: split_into_sections                            *)
(***************************************************************************)

\* section_patterns, in the dict's order.  Each pattern is
\* (?:w1|w2|...)\s*:?\s*\n with the alternatives below, written in lower
\* case as in the source; work\s+experience is the two tokens work,
\* experience.
SectionOrder ==
    <<"summary", "experience", "education", "skills", "certifications",
      "projects">>

SectionPatterns ==
    [ summary |-> {<<"summary">>, <<"profile">>, <<"objective">>, <<"about">>},
      experience |-> {<<"experience">>, <<"work", "experience">>,
                      <<"employment">>, <<"professional", "experience">>},
      education |-> {<<"education">>, <<"academic">>, <<"qualifications">>},
      skills |-> {<<"skills">>, <<"technical", "skills">>, <<"competencies">>},
      certifications |-> {<<"certifications">>, <<"certificates">>,
                          <<"credentials">>},
      projects |-> {<<"projects">>, <<"portfolio">>} ]

\* re.search(pattern, line_upper): somewhere in the line one alternative
\* occurs literally (the search is case-sensitive), then an optional colon,
\* then a line feed.
PatternSearch(alternatives, line) ==
    \E w \in alternatives :
        \E i \in 1..Len(line) :
            /\ i + Len(w) - 1 <= Len(line)
            /\ SubSeq(line, i, i + Len(w) - 1) = w
            /\ LET j == i + Len(w)
               IN  \/ (j <= Len(line) /\ line[j] = NL)
                   \/ (j + 1 <= Len(line) /\ line[j] = ":" /\ line[j + 1] = NL)

\* The first section, in the dict's order, whose pattern is found in the
\* line; None when there is none.
MatchedSection(line) ==
    LET line_upper == UpperSeq(line)
        hits == {k \in 1..Len(SectionOrder) :
                    PatternSearch(SectionPatterns[SectionOrder[k]], line_upper)}
    IN  IF hits = {} THEN None
        ELSE SectionOrder[CHOOSE k \in hits : \A m \in hits : k <= m]

\* The loop over the lines: lines[i..] are left, current_section and
\* current_text (a sequence of lines) are the loop's variables.
RECURSIVE SplitLoop(_, _, _, _, _)
SplitLoop(lines, i, current_section, current_text, sections) ==
    IF i > Len(lines)
    THEN IF current_text # <<>>
         THEN DictPut(sections, current_section, JoinWith(current_text, NL))
         ELSE sections
    ELSE LET m == MatchedSection(lines[i])
         IN  IF m # None
             THEN SplitLoop(lines, i + 1, m, <<>>,
                            IF current_section # "header"
                            THEN DictPut(sections, current_section,
                                         JoinWith(current_text, NL))
                            ELSE sections)
             ELSE SplitLoop(lines, i + 1, current_section,
                            Append(current_text, lines[i]), sections)

split_into_sections(text) ==
    SplitLoop(SplitOn(text, NL), 1, "header", <<>>, EmptyDict)

(***************************************************************************)
(* services/resume_parser.py: _extract_experience                          *)
(***************************************************************************)

\* Tokens of four digits, \d{4}, with their value under int().
Years == {"2019", "2020", "2023"}
YearValue(t) ==
    CASE t = "2019" -> 2019
      [] t = "2020" -> 2020
      [] t = "2023" -> 2023

\* Tokens made of word characters only: what \w+ matches whole.
IsWordToken(t) ==
    \/ t \in Years
    \/ (t \in DOMAIN FormsOf /\ FormsOf[t][1] # "jane@x.com")

\* Tokens whose first character is a digit: re.match(r'^\d', line).
StartsWithDigit(t) ==
    t \in Years \cup {"50%", "555-123-4567", "2020-01", "01/2020", "01/2019"}

\* [-–—]
IsDash(t) == t = "-"

\* (\d{4}|Present|Current), under re.IGNORECASE or not.
IsEndToken(t, ignorecase) ==
    \/ t \in Years
    \/ IF ignorecase THEN Lower(t) \in {"present", "current"}
       ELSE t \in {"Present", "Current"}

\* date_pattern matched at token i of the line:
\*   (\d{4}|\w+\s+\d{4})\s*[-–—]\s*(\d{4}|Present|Current)
\* The first alternative of group 1 is one year token, the second a word
\* token and a year token.  The value is <<group 1, group 2, last token>>,
\* or <<>> when the pattern does not match at i.
DateMatchAt(line, i, ignorecase) ==
    IF /\ i + 2 <= Len(line)
       /\ line[i] \in Years
       /\ IsDash(line[i + 1])
       /\ IsEndToken(line[i + 2], ignorecase)
    THEN <<<<line[i]>>, line[i + 2], i + 2>>
    ELSE IF /\ i + 3 <= Len(line)
            /\ IsWordToken(line[i])
            /\ line[i + 1] \in Years
            /\ IsDash(line[i + 2])
            /\ IsEndToken(line[i + 3], ignorecase)
         THEN <<<<line[i], line[i + 1]>>, line[i + 3], i + 3>>
         ELSE <<>>

\* The leftmost token at which date_pattern matches; 0 when it matches
\* nowhere.
DateSearch(line, ignorecase) ==
    LET hits == {i \in 1..Len(line) : DateMatchAt(line, i, ignorecase) # <<>>}
    IN  IF hits = {} THEN 0 ELSE CHOOSE i \in hits : \A j \in hits : i <= j

\* re.split(date_pattern, line)[0].strip(): the split is made without
\* re.IGNORECASE; with no match the only part is the whole line.
CompanyPos(line) ==
    LET at == DateSearch(line, FALSE)
    IN  IF at = 0 THEN line ELSE SubSeq(line, 1, at - 1)

\* The places where the separator token stands between two blanks of the
\* stripped text: ' at ' in s, ' - ' in s.
InnerPlaces(s, sep, lowered) ==
    {i \in 2..(Len(s) - 1) : (IF lowered THEN Lower(s[i]) ELSE s[i]) = sep}

First(S) == CHOOSE i \in S : \A j \in S : i <= j

\* The position and company read from company_pos, lines 171-182; the
\* outcome is the two of them, or the exception raised.
PositionCompany(company_pos) ==
    IF InnerPlaces(company_pos, "at", TRUE) # {}
    THEN \* company_pos.split(' at ', 1) splits on the lower-case ' at '
         \* only; parts[1] of a one-element list raises IndexError.
         IF InnerPlaces(company_pos, "at", FALSE) = {}
         THEN [raised |-> "IndexError"]
         ELSE LET k == First(InnerPlaces(company_pos, "at", FALSE))
              IN  [raised |-> None,
                   position |-> SubSeq(company_pos, 1, k - 1),
                   company |-> SubSeq(company_pos, k + 1, Len(company_pos))]
    ELSE IF InnerPlaces(company_pos, "-", FALSE) # {}
    THEN LET k == First(InnerPlaces(company_pos, "-", FALSE))
         IN  [raised |-> None,
              position |-> SubSeq(company_pos, 1, k - 1),
              company |-> SubSeq(company_pos, k + 1, Len(company_pos))]
    ELSE [raised |-> None, position |-> company_pos,
          company |-> <<"Unknown">>]

\* NewExperience with end_date set to the matched end token whatever it
\* is: line 164 without its conditional.
NewExperienceKeepsEnd(m, pc) ==
    IF pc.raised # None THEN pc
    ELSE [raised |-> None,
          entry |-> [company |-> pc.company,
                     position |-> pc.position,
                     start_date |-> m[1],
                     end_date |-> m[2],
                     current |-> m[2] \in {"Present", "Current"},
                     description |-> <<>>]]

\* The Experience opened by a trigger line, lines 162-191, from the match
\* m of the date pattern and the position and company pc.
NewExperience(m, pc) ==
    IF pc.raised # None THEN pc
    ELSE [raised |-> None,
          entry |-> [company |-> pc.company,
                     position |-> pc.position,
                     start_date |-> m[1],
                     end_date |-> IF m[2] \notin {"Present", "Current"}
                                  THEN m[2] ELSE None,
                     current |-> m[2] \in {"Present", "Current"},
                     description |-> <<>>]]

\* The loop over the lines, lines 148-195.  current_exp is <<>> for None
\* and <<entry>> otherwise.
RECURSIVE ExperienceLoop(_, _, _, _)
ExperienceLoop(lines, i, current_exp, experiences) ==
    IF i > Len(lines)
    THEN [raised |-> None,
          value |-> IF current_exp # <<>>
                    THEN Append(experiences, current_exp[1])
                    ELSE experiences]
    ELSE LET line == lines[i]
         IN  IF line = <<>>
             THEN ExperienceLoop(lines, i + 1, current_exp, experiences)
             ELSE IF DateSearch(line, TRUE) # 0
             THEN LET new == NewExperience(
                                 DateMatchAt(line, DateSearch(line, TRUE), TRUE),
                                 PositionCompany(CompanyPos(line)))
                  IN  IF new.raised # None
                      THEN [raised |-> new.raised]
                      ELSE ExperienceLoop(lines, i + 1, <<new.entry>>,
                                          IF current_exp # <<>>
                                          THEN Append(experiences, current_exp[1])
                                          ELSE experiences)
             ELSE IF current_exp # <<>>
             THEN IF ~StartsWithDigit(line[1])
                  THEN ExperienceLoop(lines, i + 1,
                           <<[current_exp[1] EXCEPT
                                !.description = Append(@, line)]>>,
                           experiences)
                  ELSE ExperienceLoop(lines, i + 1, current_exp, experiences)
             ELSE ExperienceLoop(lines, i + 1, current_exp, experiences)

\* The outcome [raised |-> None, value |-> list of Experience], or
\* [raised |-> the exception].
extract_experience(experience_text) ==
    IF experience_text = <<>> THEN [raised |-> None, value |-> <<>>]
    ELSE ExperienceLoop(SplitOn(experience_text, NL), 1, <<>>, <<>>)

\* Longest experience section drawn, in lines.
MaxExpLines == 3

\* The lines the experience sections are drawn from.
ExpLines ==
    { <<"Engineer", "at", "Acme", "Corp", "2020", "-", "2023">>,
      <<"Engineer", "AT", "Acme", "Corp", "2020", "-", "2023">>,
      <<"Engineer", "-", "Acme", "Corp", "2019", "-", "CURRENT">>,
      <<"Jan", "2020", "-", "Present">>,
      <<"2020", "-", "present">>,
      <<"Built", "systems">>,
      <<"50%", "growth">>,
      <<>> }

InitExp ==
    /\ expIn \in {JoinWith(ls, NL) : ls \in SeqsUpTo(ExpLines, MaxExpLines)}
    /\ expOut = <<>>
    /\ CleanIdle
    /\ ParseIdle
    /\ AnaIdle
    /\ MatchIdle
    /\ GapIdle
    /\ ScoreIdle
    /\ FmtIdle
    /\ SkillIdle
    /\ StoreIdle

\* One call of _extract_experience.
ExtractExperience ==
    /\ expOut = <<>>
    /\ expOut' = <<extract_experience(expIn)>>
    /\ UNCHANGED <<expIn, cleanVars, parseVars, anaVars, matchVars, gapVars,
                   scoreVars, fmtVars, skillVars, storeVars>>

NextExp == ExtractExperience

SpecExp == InitExp /\ [][NextExp]_vars

\* date_pattern occurs in no line of the text.
NoDateLine(text) ==
    \A k \in 1..Len(SplitOn(text, NL)) :
        DateSearch(SplitOn(text, NL)[k], TRUE) = 0

\* C7: experience extraction never raises: for every experience-section
\* text, whatever the letter case of the separators and of the end token,
\* _extract_experience returns a list of entries, and a text with no
\* date-range line yields the empty list.
C7_ExperienceNeverRaises ==
    expOut # <<>> =>
        /\ expOut[1].raised = None
        /\ NoDateLine(expIn) => expOut[1].value = <<>>

\* The trigger lines of an experience section: its lines in which the
\* date-range pattern occurs in any letter case, in line order.
TriggerPlaces(lines) ==
    {k \in 1..Len(lines) : DateSearch(lines[k], TRUE) # 0}

\* The k-th smallest element of a set of numbers.
RECURSIVE Nth(_, _)
Nth(S, k) == IF k = 1 THEN First(S) ELSE Nth(S \ {First(S)}, k - 1)

\* The end token of the date range of a trigger line.
EndToken(line) == DateMatchAt(line, DateSearch(line, TRUE), TRUE)[2]

\* The entries returned, with the line that triggered each: the k-th entry
\* and the k-th trigger line.
EntriesWithTriggers ==
    LET lines == SplitOn(expIn, NL)
        places == TriggerPlaces(lines)
        value == expOut[1].value
    IN  {<<value[k], lines[Nth(places, k)]>> :
            k \in {j \in 1..Len(value) : j <= Cardinality(places)}}

\* C11: in every entry produced by _extract_experience, current is true if
\* and only if the end token of the triggering date range is Present or
\* Current in any letter case, and then end_date is None; otherwise
\* end_date is the matched year token.
C11_CurrentFlag ==
    (expOut # <<>> /\ expOut[1].raised = None) =>
        \A p \in EntriesWithTriggers :
            LET entry == p[1]
                end == EndToken(p[2])
            IN  /\ entry.current <=> Lower(end) \in {"present", "current"}
                /\ IF entry.current THEN entry.end_date = None
                   ELSE entry.end_date = end /\ end \in Years

\* A line that goes into a description: not blank, not beginning with a
\* digit.
DescriptionLine(line) == line # <<>> /\ ~StartsWithDigit(line[1])

\* The description lines after trigger k and before the next trigger, or
\* the end of the section after the last trigger.
LinesAfterTrigger(lines, places, k) ==
    LET from == Nth(places, k) + 1
        to == IF k < Cardinality(places) THEN Nth(places, k + 1) - 1
              ELSE Len(lines)
    IN  SelectSeq(SubSeq(lines, from, to), DescriptionLine)

\* The entries are one per trigger line, in line order, each with the
\* description lines that follow its trigger.
OnePerTrigger(lines, value) ==
    LET places == TriggerPlaces(lines)
    IN  /\ Len(value) = Cardinality(places)
        /\ \A k \in 1..Len(value) :
               /\ value[k].start_date =
                      DateMatchAt(lines[Nth(places, k)],
                                  DateSearch(lines[Nth(places, k)], TRUE),
                                  TRUE)[1]
               /\ value[k].description = LinesAfterTrigger(lines, places, k)

\* C19: the experience extractor emits exactly one entry per date-range
\* trigger line, in line order; the end of the section flushes the last
\* open entry; each entry's description is exactly the non-blank lines not
\* beginning with a digit between its trigger line and the next trigger or
\* the end; lines before the first trigger belong to no entry.
C19_OneEntryPerTrigger ==
    expOut # <<>> =>
        /\ expOut[1].raised = None
        /\ OnePerTrigger(SplitOn(expIn, NL), expOut[1].value)

\* C20: in every Experience entry the extractor produces, if current is
\* true then end_date is None.
C20_CurrentHasNoEnd ==
    (expOut # <<>> /\ expOut[1].raised = None) =>
        \A k \in 1..Len(expOut[1].value) :
            expOut[1].value[k].current => expOut[1].value[k].end_date = None

\* An entry with current true was produced.
C20_Witness ==
    /\ expOut # <<>>
    /\ expOut[1].raised = None
    /\ \E k \in 1..Len(expOut[1].value) :
           /\ expOut[1].value[k].current
           /\ expOut[1].value[k].end_date = None

(***************************************************************************)
(* services/resume_parser.py: parse and the other extractors               *)
(***************************************************************************)

\* clean_text on a token text: the line feeds become blanks, and each
\* token loses the characters outside [\w\s.,;:\-'"()]; a token left empty
\* disappears.
CleanToken(t) ==
    CASE t = "jane@x.com" -> "janex.com"
      [] t = "Jane@x.com" -> "Janex.com"
      [] t = "JANE@X.COM" -> "JANEX.COM"
      [] t = "50%" -> "50"
      [] t = "|" -> ""
      [] OTHER -> t

clean_text_tokens(text) ==
    SelectSeq([i \in 1..Len(text) |-> IF text[i] = NL THEN "" ELSE CleanToken(text[i])],
              LAMBDA t : t # "")

\* extract_email: the first token that is an address, else None.
EmailTokens == {"jane@x.com", "Jane@x.com", "JANE@X.COM"}

\* extract_phone: the first of the three patterns already matches any run
\* of four digits, so the first token holding one is the start of the
\* match; None when there is none.
PhoneTokens == Years \cup {"555-123-4567"}

\* matches[0] if matches else None, for the matches that are the tokens
\* of a set.
FirstToken(text, tokens) ==
    IF \E i \in 1..Len(text) : text[i] \in tokens
    THEN text[First({i \in 1..Len(text) : text[i] \in tokens})]
    ELSE None

\* The tokens "," and ":" follow the token before them without a blank:
\* the words of str.split() are the other tokens.
IsAttached(t) == t \in {",", ":"}
WordPlaces(line) == {i \in 1..Len(line) : ~IsAttached(line[i])}

\* ' '.join(name.split()[:2])
FirstTwoWords(line) ==
    LET third == CHOOSE i \in WordPlaces(line) :
                     Cardinality({j \in WordPlaces(line) : j < i}) = 2
    IN  SubSeq(line, 1, third - 1)

\* _extract_contact_info; location, linkedin and website are not carried.
extract_contact_info(text) ==
    LET first_line == SplitOn(text, NL)[1]
    IN  [ name |-> IF Cardinality(WordPlaces(first_line)) > 4
                   THEN FirstTwoWords(first_line)
                   ELSE first_line,
          email |-> FirstToken(text, EmailTokens),
          phone |-> FirstToken(text, PhoneTokens) ]

\* _extract_summary.  The texts of the model are shorter than 500
\* characters, so the truncation to 500 characters never applies.
extract_summary(summary_text) ==
    IF summary_text = <<>> THEN NoText
    ELSE IF clean_text_tokens(summary_text) = <<>> THEN NoText
    ELSE Text(clean_text_tokens(summary_text))

\* self.common_skills, in the list's order; a name of two words is two
\* tokens.
CommonSkills ==
    << <<"Python">>, <<"JavaScript">>, <<"Java">>, <<"C++">>, <<"C#">>,
       <<"SQL">>, <<"React">>, <<"Node.js">>, <<"Angular">>, <<"Vue.js">>,
       <<"TypeScript">>, <<"HTML">>, <<"CSS">>, <<"AWS">>, <<"Docker">>,
       <<"Kubernetes">>, <<"Git">>, <<"Linux">>, <<"Machine", "Learning">>,
       <<"Data", "Science">>, <<"Agile">>, <<"Scrum">>,
       <<"Project", "Management">>, <<"TensorFlow">>, <<"PyTorch">>,
       <<"MongoDB">>, <<"PostgreSQL">>, <<"Redis">>, <<"Kafka">>,
       <<"REST", "API">>, <<"GraphQL">> >>

\* str.lower() of a skill name: the names that the texts of the model can
\* hold are in CaseForms; the others are lower-cased here.
LowerSkill(name) ==
    CASE name = <<"JavaScript">> -> <<"javascript">>
      [] name = <<"Java">> -> <<"java">>
      [] name = <<"C++">> -> <<"c++">>
      [] name = <<"C#">> -> <<"c#">>
      [] name = <<"React">> -> <<"react">>
      [] name = <<"Node.js">> -> <<"node.js">>
      [] name = <<"Angular">> -> <<"angular">>
      [] name = <<"Vue.js">> -> <<"vue.js">>
      [] name = <<"TypeScript">> -> <<"typescript">>
      [] name = <<"HTML">> -> <<"html">>
      [] name = <<"CSS">> -> <<"css">>
      [] name = <<"Docker">> -> <<"docker">>
      [] name = <<"Kubernetes">> -> <<"kubernetes">>
      [] name = <<"Git">> -> <<"git">>
      [] name = <<"Linux">> -> <<"linux">>
      [] name = <<"Machine", "Learning">> -> <<"machine", "learning">>
      [] name = <<"Data", "Science">> -> <<"data", "science">>
      [] name = <<"Agile">> -> <<"agile">>
      [] name = <<"Scrum">> -> <<"scrum">>
      [] name = <<"Project", "Management">> -> <<"project", "management">>
      [] name = <<"TensorFlow">> -> <<"tensorflow">>
      [] name = <<"PyTorch">> -> <<"pytorch">>
      [] name = <<"MongoDB">> -> <<"mongodb">>
      [] name = <<"PostgreSQL">> -> <<"postgresql">>
      [] name = <<"Redis">> -> <<"redis">>
      [] name = <<"Kafka">> -> <<"kafka">>
      [] name = <<"REST", "API">> -> <<"rest", "api">>
      [] name = <<"GraphQL">> -> <<"graphql">>
      [] OTHER -> LowerSeq(name)

\* needle in haystack, for token texts: the needle's tokens occur in a row.
\* No token of the model's texts holds another one inside it.
ContainsTokens(haystack, needle) ==
    \E i \in 1..Len(haystack) :
        /\ i + Len(needle) - 1 <= Len(haystack)
        /\ SubSeq(haystack, i, i + Len(needle) - 1) = needle

\* utils/text_processor.py: extract_skills
extract_skills(text, common_skills) ==
    SelectSeq(common_skills,
              LAMBDA skill : ContainsTokens(LowerSeq(text), LowerSkill(skill)))

\* The names added from one comma-separated line without the test for a
\* name already present.
RECURSIVE AddPotentialSkillsAll(_, _)
AddPotentialSkillsAll(names, potential_skills) ==
    IF potential_skills = <<>> THEN names
    ELSE LET ps == Head(potential_skills)
         IN  AddPotentialSkillsAll(
                 IF ps # <<>> THEN Append(names, ps) ELSE names,
                 Tail(potential_skills))

\* The names added from one comma-separated line, lines 277-282.
RECURSIVE AddPotentialSkills(_, _)
AddPotentialSkills(names, potential_skills) ==
    IF potential_skills = <<>> THEN names
    ELSE LET ps == Head(potential_skills)
         IN  AddPotentialSkills(
                 IF ps # <<>> /\ \A k \in 1..Len(names) : names[k] # ps
                 THEN Append(names, ps) ELSE names,
                 Tail(potential_skills))

RECURSIVE SkillLinesLoop(_, _, _)
SkillLinesLoop(skill_lines, i, names) ==
    IF i > Len(skill_lines) THEN names
    ELSE SkillLinesLoop(skill_lines, i + 1,
             IF Len(SplitOn(skill_lines[i], ",")) > 2
             THEN AddPotentialSkills(names, SplitOn(skill_lines[i], ","))
             ELSE names)

\* _extract_skills: the list of Skill, each carried by its name.
extract_skills_list(skills_text) ==
    LET names == SkillLinesLoop(SplitOn(skills_text, NL), 1,
                                extract_skills(skills_text, CommonSkills))
    IN  [k \in 1..Len(names) |-> [name |-> names[k]]]

\* parse, lines 48-66, from the extracted text on.  A failing extractor
\* makes parse raise.  education and certifications are not carried.
parse(text) ==
    LET sections == split_into_sections(text)
        experience == extract_experience(DictGet(sections, "experience"))
    IN  IF experience.raised # None THEN [raised |-> experience.raised]
        ELSE [ raised |-> None,
               contact_info |-> extract_contact_info(text),
               summary |-> extract_summary(DictGet(sections, "summary")),
               experience |-> experience.value,
               skills |-> extract_skills_list(
                              DictGet(sections, "skills") \o text),
               raw_text |-> Text(text) ]

\* Longest text drawn for the segmenter and the parser, in lines.
MaxParseLines == 3

\* The lines those texts are drawn from: a preamble line, header lines in
\* three letter cases and with a colon, content lines, a blank line.
ParseLines ==
    { <<"Jane", "Doe">>,
      <<"EXPERIENCE">>,
      <<"Skills">>,
      <<"education", ":">>,
      <<"2020", "-", "Present">>,
      <<"Built", "systems">>,
      <<"Python", ",", "SQL", ",", "AWS">>,
      <<>> }

\* The text of the scenario of the specification, section 8.
ScenarioText ==
    JoinWith(<< <<"Jane", "Doe">>, <<"jane@x.com">>, <<"555-123-4567">>,
                <<"EXPERIENCE">>, <<"Engineer", "at", "Acme">>,
                <<"2020", "-", "Present">>, <<"Built", "systems">>,
                <<"SKILLS">>, <<"Python", ",", "SQL", ",", "AWS">> >>, NL)

InitParse ==
    /\ parseIn \in {ScenarioText}
                   \cup {JoinWith(ls, NL) : ls \in SeqsUpTo(ParseLines, MaxParseLines)}
    /\ segOut = <<>>
    /\ parseOut = <<>>
    /\ CleanIdle
    /\ ExpIdle
    /\ AnaIdle
    /\ MatchIdle
    /\ GapIdle
    /\ ScoreIdle
    /\ FmtIdle
    /\ SkillIdle
    /\ StoreIdle

\* One call of split_into_sections.
SplitSections ==
    /\ segOut = <<>>
    /\ segOut' = <<split_into_sections(parseIn)>>
    /\ UNCHANGED <<parseIn, parseOut, cleanVars, expVars, anaVars, matchVars,
                   gapVars, scoreVars, fmtVars, skillVars, storeVars>>

\* One call of parse on the extracted text.
Parse ==
    /\ parseOut = <<>>
    /\ parseOut' = <<parse(parseIn)>>
    /\ UNCHANGED <<parseIn, segOut, cleanVars, expVars, anaVars, matchVars,
                   gapVars, scoreVars, fmtVars, skillVars, storeVars>>

NextParse == SplitSections \/ Parse

SpecParse == InitParse /\ [][NextParse]_vars

(***************************************************************************)
(* _extract_skills on a skills section followed by the full text, as       *)
(* parse calls it at line 61                                               *)
(***************************************************************************)

\* Longest skills section and longest text drawn, in lines.
MaxSkillLines == 2

\* The lines: comma-separated lists of three names, in the letter case of
\* the common skills and in other cases, one with a name repeated, a list
\* of two names, and a line without a comma.
SkillLines ==
    { <<"Python", ",", "SQL", ",", "AWS">>,
      <<"python", ",", "SQL", ",", "aws">>,
      <<"Python", ",", "Python", ",", "python">>,
      <<"Docker", ",", "Python">>,
      <<"Built", "systems">> }

SkillTexts == {JoinWith(ls, NL) : ls \in SeqsUpTo(SkillLines, MaxSkillLines)}

InitSkills ==
    /\ skillsIn \in [skills : SkillTexts, text : SkillTexts]
    /\ skillsOut = <<>>
    /\ CleanIdle
    /\ ParseIdle
    /\ ExpIdle
    /\ AnaIdle
    /\ MatchIdle
    /\ GapIdle
    /\ ScoreIdle
    /\ FmtIdle
    /\ StoreIdle

\* One call of _extract_skills(sections.get('skills', '') + ' ' + text).
ExtractSkills ==
    /\ skillsOut = <<>>
    /\ skillsOut' = <<extract_skills_list(skillsIn.skills \o skillsIn.text)>>
    /\ UNCHANGED <<skillsIn, cleanVars, parseVars, expVars, anaVars, matchVars,
                   gapVars, scoreVars, fmtVars, storeVars>>

NextSkills == ExtractSkills

SpecSkills == InitSkills /\ [][NextSkills]_vars

\* The names that the comma-separated lists of the text hold: the items,
\* not empty, of the lines with more than two items.
ListedNames(text) ==
    UNION { {item \in Elements(SplitOn(line, ",")) : item # <<>>} :
            line \in {l \in Elements(SplitOn(text, NL)) :
                         Len(SplitOn(l, ",")) > 2} }

\* C25: the list that _extract_skills returns never holds two entries
\* with the same name, also when the text of the skills section occurs
\* again in the full text; every name of a comma-separated list is an
\* entry as written, so names that differ in letter case only are
\* distinct entries.
C25_NoDuplicateSkills ==
    skillsOut # <<>> =>
        LET skills == skillsOut[1]
        IN  /\ \A i, j \in 1..Len(skills) :
                   i # j => skills[i].name # skills[j].name
            /\ ListedNames(skillsIn.skills \o skillsIn.text)
                   \subseteq {skills[i].name : i \in 1..Len(skills)}

\* The skills section is a list that the full text holds again, and the
\* result holds Python and python as two entries.
C25_Witness ==
    /\ skillsOut # <<>>
    /\ skillsIn.skills = <<"python", ",", "SQL", ",", "aws">>
    /\ ContainsTokens(skillsIn.text, skillsIn.skills)
    /\ \E i, j \in 1..Len(skillsOut[1]) :
           /\ skillsOut[1][i].name = <<"Python">>
           /\ skillsOut[1][j].name = <<"python">>


(***************************************************************************)
(* services/resume_analyzer.py                                             *)
(*                                                                         *)
(* A Resume is the record [contact_info, summary, experience, skills,      *)
(* certifications, raw_text].                                              *)
(***************************************************************************)

\* len() of a token text: the tokens, one blank between two tokens of a
\* line, none before an attached "," or ":", and one character per line feed.
RECURSIVE CharLen(_)
CharLen(s) ==
    IF s = <<>> THEN 0
    ELSE CharLen(SubSeq(s, 1, Len(s) - 1)) + Len(Last(s))
         + (IF Len(s) > 1 /\ Last(s) # NL /\ s[Len(s) - 1] # NL
               /\ ~IsAttached(Last(s))
            THEN 1 ELSE 0)

\* Python's truth value of an optional string: None and '' are false.
Truthy(x) == x # None /\ x # ""
TruthyText(o) == o # NoText /\ o[1] # <<>>

\* All description lines of the resume, in the order of the two loops
\* "for exp in resume.experience: for desc in exp.description".
RECURSIVE AllDescriptions(_)
AllDescriptions(experience) ==
    IF experience = <<>> THEN <<>>
    ELSE Head(experience).description \o AllDescriptions(Tail(experience))

RECURSIVE SumLen(_)
SumLen(descs) ==
    IF descs = <<>> THEN 0 ELSE CharLen(Head(descs)) + SumLen(Tail(descs))

\* int(date[:4]) of a date of the extractor: a year token in front gives
\* its value; any other front gives four characters that are no number,
\* and int raises ValueError.
IntOfPrefix(date) ==
    IF date[1] \in Years THEN [raised |-> None, value |-> YearValue(date[1])]
    ELSE IF date[1] = "2020-01" THEN [raised |-> None, value |-> 2020]
    ELSE [raised |-> "ValueError"]

\* The years one entry adds, lines 67-73; an exception is swallowed and
\* the entry adds nothing.  end_date is one token or None.
EntryYears(exp) ==
    LET start == IF CharLen(exp.start_date) >= 4
                 THEN IntOfPrefix(exp.start_date)
                 ELSE [raised |-> None, value |-> 0]
        end == IF Truthy(exp.end_date) /\ CharLen(<<exp.end_date>>) >= 4
               THEN IntOfPrefix(<<exp.end_date>>)
               ELSE [raised |-> None, value |-> 2024]
    IN  IF start.raised # None THEN 0
        ELSE IF end.raised # None THEN 0
        ELSE IF start.value > 0 THEN end.value - start.value
        ELSE 0

RECURSIVE TotalExperienceYears(_)
TotalExperienceYears(experience) ==
    IF experience = <<>> THEN 0
    ELSE EntryYears(Head(experience)) + TotalExperienceYears(Tail(experience))

\* Token classes of the quantifiable-achievement patterns.
PercentTokens == {"50%"}          \* \d+%
PlusTokens == {"10+"}             \* \d+\+
DollarTokens == {"$5000"}         \* \$\d+
NumberTokens == Years \cup {"5", "12"}   \* \d+ alone

\* \d+\s*(u1|u2|...) under re.IGNORECASE: a number token, then a unit.
NumberThenUnit(desc, units) ==
    \E i \in 1..(Len(desc) - 1) :
        desc[i] \in NumberTokens /\ Lower(desc[i + 1]) \in units

\* The pattern of _calculate_metrics, line 79.
MetricsQuantifiable(desc) ==
    \/ \E i \in 1..Len(desc) :
           desc[i] \in PercentTokens \cup PlusTokens \cup DollarTokens
    \/ NumberThenUnit(desc, {"years", "months", "people", "projects"})

\* The four patterns of _analyze_quantifiable_achievements, lines 109-114.
StrengthQuantifiable(desc) ==
    \/ \E i \in 1..Len(desc) : desc[i] \in PercentTokens
    \/ \E i \in 1..Len(desc) : desc[i] \in DollarTokens
    \/ \E i \in 1..Len(desc) : desc[i] \in PlusTokens
    \/ NumberThenUnit(desc, {"years", "months", "people", "projects",
                             "clients", "users"})

\* average_description_length is total_length / total_count, kept as the
\* two integers; 0 is [sum |-> 0, count |-> 0].
avg_description_length(resume) ==
    [ sum |-> SumLen(AllDescriptions(resume.experience)),
      count |-> Len(AllDescriptions(resume.experience)) ]

\* average > n, for the quotient kept as two integers.
AvgAbove(avg, n) == avg.count > 0 /\ avg.sum > n * avg.count

\* len(resume.raw_text or '')
TextLength(resume) ==
    IF TruthyText(resume.raw_text) THEN CharLen(resume.raw_text[1]) ELSE 0

calculate_metrics(resume) ==
    [ total_experience_years |-> TotalExperienceYears(resume.experience),
      number_of_positions |-> Len(resume.experience),
      number_of_skills |-> Len(resume.skills),
      number_of_certifications |-> Len(resume.certifications),
      has_summary |-> resume.summary # NoText,
      quantifiable_achievements |->
          Len(SelectSeq(AllDescriptions(resume.experience), MetricsQuantifiable)),
      text_length |-> TextLength(resume),
      average_description_length |-> avg_description_length(resume) ]

analyze_quantifiable_achievements(resume) ==
    LET quantifiable_count ==
            Len(SelectSeq(AllDescriptions(resume.experience), StrengthQuantifiable))
    IN  IF quantifiable_count >= 3
        THEN <<<<"Strong use of quantifiable achievements", quantifiable_count>>>>
        ELSE IF quantifiable_count > 0
        THEN <<<<"Some quantifiable achievements present", quantifiable_count>>>>
        ELSE <<>>

\* A strength or weakness message is <<text>>, or <<text, n>> when the
\* text ends with "(n found)".

\* self.strong_action_verbs and self.weak_action_verbs
StrongActionVerbs ==
    << <<"achieved">>, <<"improved">>, <<"increased">>, <<"decreased">>,
       <<"reduced">>, <<"developed">>, <<"created">>, <<"designed">>,
       <<"implemented">>, <<"managed">>, <<"led">>, <<"coordinated">>,
       <<"executed">>, <<"delivered">>, <<"optimized">>, <<"enhanced">>,
       <<"streamlined">>, <<"established">>, <<"launched">>, <<"built">> >>

WeakActionVerbs ==
    << <<"worked">>, <<"did">>, <<"made">>, <<"helped">>, <<"assisted">>,
       <<"responsible", "for">> >>

\* The number of (description, verb) pairs with the verb in the
\* lower-cased description.
RECURSIVE VerbHits(_, _)
VerbHits(descs, verbs) ==
    IF descs = <<>> THEN 0
    ELSE Len(SelectSeq(verbs, LAMBDA v : ContainsTokens(LowerSeq(Head(descs)), v)))
         + VerbHits(Tail(descs), verbs)

analyze_action_verbs(resume) ==
    LET strong_count == VerbHits(AllDescriptions(resume.experience), StrongActionVerbs)
        weak_count == VerbHits(AllDescriptions(resume.experience), WeakActionVerbs)
    IN  IF strong_count > weak_count * 2
        THEN <<<<"Excellent use of strong action verbs">>>>
        ELSE IF strong_count > weak_count
        THEN <<<<"Good use of action verbs">>>>
        ELSE <<>>

analyze_structure(resume) ==
    (IF TruthyText(resume.summary) THEN <<<<"Professional summary present">>>> ELSE <<>>)
    \o (IF Len(resume.experience) >= 2
        THEN <<<<"Adequate work experience listed">>>> ELSE <<>>)
    \o (IF Len(resume.skills) >= 5 THEN <<<<"Good variety of skills">>>> ELSE <<>>)
    \o (IF Truthy(resume.contact_info.email)
        THEN <<<<"Contact information complete">>>> ELSE <<>>)

\* The missing elements with the five tests chained as alternatives: only
\* the first missing element is reported.
analyze_missing_elements_first(resume) ==
    IF ~TruthyText(resume.summary) THEN <<<<"Missing professional summary">>>>
    ELSE IF Len(resume.experience) = 0 THEN <<<<"No work experience listed">>>>
    ELSE IF Len(resume.skills) < 5
         THEN <<<<"Limited skills listed (consider adding more)">>>>
    ELSE IF ~Truthy(resume.contact_info.email)
         THEN <<<<"Missing email address">>>>
    ELSE IF ~Truthy(resume.contact_info.phone)
         THEN <<<<"Missing phone number">>>>
    ELSE <<>>

analyze_missing_elements(resume) ==
    (IF ~TruthyText(resume.summary) THEN <<<<"Missing professional summary">>>> ELSE <<>>)
    \o (IF Len(resume.experience) = 0
        THEN <<<<"No work experience listed">>>> ELSE <<>>)
    \o (IF Len(resume.skills) < 5
        THEN <<<<"Limited skills listed (consider adding more)">>>> ELSE <<>>)
    \o (IF ~Truthy(resume.contact_info.email)
        THEN <<<<"Missing email address">>>> ELSE <<>>)
    \o (IF ~Truthy(resume.contact_info.phone)
        THEN <<<<"Missing phone number">>>> ELSE <<>>)

VagueWords ==
    << <<"various">>, <<"many">>, <<"some">>, <<"several">>,
       <<"assisted", "with">> >>

\* A description holding one of the words.
HoldsAny(desc, words) ==
    \E k \in 1..Len(words) : ContainsTokens(LowerSeq(desc), words[k])

analyze_weak_language(resume) ==
    LET descs == AllDescriptions(resume.experience)
        weak_count == Len(SelectSeq(descs, LAMBDA d : HoldsAny(d, WeakActionVerbs)))
        vague_count == Len(SelectSeq(descs, LAMBDA d : HoldsAny(d, VagueWords)))
    IN  (IF weak_count > 3
         THEN <<<<"Too many weak action verbs (consider using stronger verbs)">>>>
         ELSE <<>>)
        \o (IF vague_count > 2
            THEN <<<<"Vague language detected (be more specific)">>>> ELSE <<>>)

\* _analyze_formatting_issues without the test of line 238: the average of
\* an empty list is taken, and sum / len raises ZeroDivisionError.
analyze_formatting_issues_unguarded(resume) ==
    IF AllDescriptions(resume.experience) = <<>>
    THEN [raised |-> "ZeroDivisionError"]
    ELSE [raised |-> "TypeError"]

\* _analyze_formatting_issues.  desc_lengths holds integers, and line 240
\* takes len(d) of its first element as soon as the list is not empty:
\* TypeError, object of type 'int' has no len().
analyze_formatting_issues(resume) ==
    LET text_weaknesses ==
            IF TruthyText(resume.raw_text)
            THEN IF CharLen(resume.raw_text[1]) > 2000
                 THEN <<<<"Resume may be too long (consider condensing)">>>>
                 ELSE IF CharLen(resume.raw_text[1]) < 300
                 THEN <<<<"Resume may be too short (add more detail)">>>>
                 ELSE <<>>
            ELSE <<>>
        desc_lengths ==
            [k \in 1..Len(AllDescriptions(resume.experience)) |->
                CharLen(AllDescriptions(resume.experience)[k])]
    IN  IF desc_lengths # <<>>
        THEN [raised |-> "TypeError"]
        ELSE [raised |-> None, value |-> text_weaknesses]

\* Contact info (20 points), lines 249-253.
ContactPoints(resume) ==
    (IF Truthy(resume.contact_info.email) THEN 10 ELSE 0)
    + (IF Truthy(resume.contact_info.phone) THEN 10 ELSE 0)

\* The structure points with the skills award given for more than five
\* skills only.
StructurePointsMoreThanFive(resume) ==
    (IF TruthyText(resume.summary) THEN 10 ELSE 0)
    + (IF Len(resume.experience) > 0 THEN 10 ELSE 0)
    + (IF Len(resume.skills) > 5 THEN 10 ELSE 0)

\* Structure (30 points), lines 255-261.
StructurePoints(resume) ==
    (IF TruthyText(resume.summary) THEN 10 ELSE 0)
    + (IF Len(resume.experience) > 0 THEN 10 ELSE 0)
    + (IF Len(resume.skills) >= 5 THEN 10 ELSE 0)

\* Content quality (30 points), lines 263-270.
\* The content points with the awards of the two achievement bands
\* exchanged.
ContentPointsSwapped(metrics) ==
    (IF metrics.quantifiable_achievements >= 3 THEN 8
     ELSE IF metrics.quantifiable_achievements > 0 THEN 15 ELSE 0)
    + (IF AvgAbove(metrics.average_description_length, 50) THEN 15 ELSE 0)

ContentPoints(metrics) ==
    (IF metrics.quantifiable_achievements >= 3 THEN 15
     ELSE IF metrics.quantifiable_achievements > 0 THEN 8 ELSE 0)
    + (IF AvgAbove(metrics.average_description_length, 50) THEN 15 ELSE 0)

\* The formatting points with a deduction for a text length outside every
\* band.
FormattingPointsPenalty(metrics) ==
    IF 500 <= metrics.text_length /\ metrics.text_length <= 2000 THEN 20
    ELSE IF \/ (300 <= metrics.text_length /\ metrics.text_length < 500)
            \/ (2000 < metrics.text_length /\ metrics.text_length <= 3000)
         THEN 10
         ELSE 0 - 10

\* Formatting (20 points), lines 272-277.
FormattingPoints(metrics) ==
    IF 500 <= metrics.text_length /\ metrics.text_length <= 2000 THEN 20
    ELSE IF \/ (300 <= metrics.text_length /\ metrics.text_length < 500)
            \/ (2000 < metrics.text_length /\ metrics.text_length <= 3000)
         THEN 10
         ELSE 0

Min(a, b) == IF a <= b THEN a ELSE b

calculate_ats_score(resume, metrics) ==
    Min(100, ContactPoints(resume) + StructurePoints(resume)
             + ContentPoints(metrics) + FormattingPoints(metrics))

\* The number of occurrences of the needle in the token text:
\* str.count.
CountTokens(haystack, needle) ==
    Cardinality({i \in 1..Len(haystack) :
                    /\ i + Len(needle) - 1 <= Len(haystack)
                    /\ SubSeq(haystack, i, i + Len(needle) - 1) = needle})

ImportantKeywords ==
    {"experience", "skills", "education", "certification", "project",
     "achievement", "leadership", "management", "development",
     "implementation", "optimization", "analysis"}

analyze_keywords(resume) ==
    IF ~TruthyText(resume.raw_text) THEN EmptyDict
    ELSE LET text_lower == LowerSeq(resume.raw_text[1])
             found == {k \in ImportantKeywords : CountTokens(text_lower, <<k>>) > 0}
             names == {resume.skills[k].name : k \in 1..Len(resume.skills)}
         IN  [ important_keywords |->
                   [k \in found |-> CountTokens(text_lower, <<k>>)],
               skill_keywords |->
                   [n \in names |-> CountTokens(text_lower, LowerSkill(n))],
               total_unique_keywords |-> Cardinality(found) + Cardinality(names) ]

\* analyze: the calls in the order of lines 37-53; the exception of
\* _analyze_formatting_issues leaves analyze before the score is computed.
analyze(resume) ==
    LET metrics == calculate_metrics(resume)
        strengths == analyze_quantifiable_achievements(resume)
                     \o analyze_action_verbs(resume)
                     \o analyze_structure(resume)
        formatting == analyze_formatting_issues(resume)
    IN  IF formatting.raised # None THEN [raised |-> formatting.raised]
        ELSE [ raised |-> None,
               ats_score |-> calculate_ats_score(resume, metrics),
               strengths |-> strengths,
               weaknesses |-> analyze_missing_elements(resume)
                              \o analyze_weak_language(resume)
                              \o formatting.value,
               metrics |-> metrics,
               keyword_analysis |-> analyze_keywords(resume) ]

(***************************************************************************)
(* Specifications of the analyzer                                          *)
(***************************************************************************)

\* Most experience entries of a resume drawn, and most description lines
\* over all its entries.
MaxEntries == 2
MaxDescLines == 3

\* Filler words of 99 and 100 characters, to build raw texts whose length
\* stands on either side of the thresholds 300, 500, 2000 and 3000.
Filler99 ==
    "xxxxxxxxxxxxxxxxxxxxxxxxxxxxxxxxxxxxxxxxxxxxxxxxxxxxxxxxxxxxxxxxxxxxxxxxxxxxxxxxxxxxxxxxxxxxxxxxxxx"
Filler100 ==
    "xxxxxxxxxxxxxxxxxxxxxxxxxxxxxxxxxxxxxxxxxxxxxxxxxxxxxxxxxxxxxxxxxxxxxxxxxxxxxxxxxxxxxxxxxxxxxxxxxxxx"

\* A text of k words of 99 characters and m words of 100:
\* 100 k + 101 m - 1 characters.
FillerText(k, m) ==
    [i \in 1..(k + m) |-> IF i <= k THEN Filler99 ELSE Filler100]

\* The description lines the resumes are drawn from: a short and a long
\* line with a percentage, and a short line without a number.
ShortQuant == <<"Grew", "revenue", "50%">>
LongQuant ==
    <<"Increased", "revenue", "50%", "through", "streamlined", "operations",
      "worldwide">>
PlainLine == <<"Helped", "various", "teams">>
ClientsLine == <<"Served", "12", "clients">>
DescLines == {ShortQuant, LongQuant, PlainLine}

FiveSkills ==
    << [name |-> <<"Python">>], [name |-> <<"SQL">>], [name |-> <<"AWS">>],
       [name |-> <<"Docker">>], [name |-> <<"Git">>] >>

Entry(start_date, end_date, description) ==
    [ company |-> <<"Acme">>, position |-> <<"Engineer">>,
      start_date |-> start_date, end_date |-> end_date,
      current |-> end_date = None, description |-> description ]

\* The ways to cut a sequence of lines into n consecutive descriptions.
Cuts(lines, n) ==
    {c \in [0..n -> 0..Len(lines)] :
        /\ c[0] = 0
        /\ c[n] = Len(lines)
        /\ \A k \in 1..n : c[k - 1] <= c[k]}

\* The experience lists of at most MaxEntries entries that hold at most
\* MaxDescLines description lines in all.
DescribedExperiences ==
    {<<>>} \cup
    { [k \in 1..n |-> Entry(<<"2020">>, None, SubSeq(lines, c[k - 1] + 1, c[k]))] :
        <<lines, n, c>> \in
            { <<l, m, d>> \in
                  SeqsUpTo(DescLines, MaxDescLines) \X (1..MaxEntries)
                  \X UNION {[0..m -> 0..MaxDescLines] : m \in 1..MaxEntries} :
                  d \in Cuts(l, m) } }

\* The experience lists without descriptions, for the dates.
DatedEntries ==
    { Entry(s, e, <<>>) :
        s \in {<<"2020">>, <<"2019">>, <<"Jan", "2020">>},
        e \in {None, "2023"} }

Resume(email, phone, summary, skills, raw_text, experience) ==
    [ contact_info |-> [name |-> <<"Jane", "Doe">>, email |-> email,
                        phone |-> phone],
      summary |-> summary,
      experience |-> experience,
      skills |-> skills,
      certifications |-> <<>>,
      raw_text |-> raw_text ]

ScoredResumes ==
    { Resume(email, phone, summary, skills, raw_text, experience) :
        email \in {None, "jane@x.com"},
        phone \in {None, "555-123-4567"},
        summary \in {NoText, Text(<<"Engineer">>)},
        skills \in {<<>>, FiveSkills},
        raw_text \in {NoText, Text(FillerText(3, 0)), Text(FillerText(4, 1)),
                      Text(FillerText(28, 2))},
        experience \in DescribedExperiences }

DatedResumes ==
    { Resume(None, None, NoText, <<>>, Text(<<>>), experience) :
        experience \in SeqsUpTo(DatedEntries, MaxEntries) }

\* The resumes drawn for the bands of the text length: texts of 300, 499,
\* 2000, 2001 and 3000 characters.
BandResumes ==
    { Resume(email, None, NoText, <<>>, Text(FillerText(k[1], k[2])), <<>>) :
        email \in {None, "jane@x.com"},
        k \in {<<2, 1>>, <<5, 0>>, <<19, 1>>, <<18, 2>>, <<29, 1>>} }

\* The resumes drawn for the count of achievements: one entry whose
\* description lines name a number of clients, of people, or no number.
PeopleLine == <<"Led", "5", "people">>
CountedResumes ==
    { Resume(None, None, NoText, <<>>, NoText,
             <<Entry(<<"2020">>, None, lines)>>) :
        lines \in SeqsUpTo({ClientsLine, PeopleLine, PlainLine}, 2) }

\* The record that parse builds from an empty text; no certification is
\* extracted from an absent section.
EmptyTextRecord ==
    LET parsed == parse(<<>>)
    IN  [ contact_info |-> parsed.contact_info,
          summary |-> parsed.summary,
          experience |-> parsed.experience,
          skills |-> parsed.skills,
          certifications |-> <<>>,
          raw_text |-> parsed.raw_text ]

InitAnalyze ==
    /\ anaIn \in ScoredResumes \cup DatedResumes \cup BandResumes
                \cup CountedResumes \cup {EmptyTextRecord}
    /\ anaOut = <<>>
    /\ anaPrev = <<>>
    /\ CleanIdle
    /\ ParseIdle
    /\ ExpIdle
    /\ MatchIdle
    /\ GapIdle
    /\ ScoreIdle
    /\ FmtIdle
    /\ SkillIdle
    /\ StoreIdle

\* One call of ResumeAnalyzer.analyze.
Analyze ==
    /\ anaOut = <<>>
    /\ anaOut' = <<[op |-> "analyze", result |-> analyze(anaIn)]>>
    /\ UNCHANGED <<anaIn, anaPrev, cleanVars, parseVars, expVars, matchVars,
                   gapVars, scoreVars, fmtVars, skillVars, storeVars>>

\* One call of _calculate_metrics.
CalculateMetrics ==
    /\ anaOut = <<>>
    /\ anaOut' = <<[op |-> "metrics", result |-> calculate_metrics(anaIn)]>>
    /\ UNCHANGED <<anaIn, anaPrev, cleanVars, parseVars, expVars, matchVars,
                   gapVars, scoreVars, fmtVars, skillVars, storeVars>>

\* One call of _calculate_ats_score on the resume and its metrics.
CalculateAtsScore ==
    /\ anaOut = <<>>
    /\ anaOut' = <<[op |-> "score",
                    result |-> calculate_ats_score(anaIn, calculate_metrics(anaIn))]>>
    /\ UNCHANGED <<anaIn, anaPrev, cleanVars, parseVars, expVars, matchVars,
                   gapVars, scoreVars, fmtVars, skillVars, storeVars>>

NextAnalyze == Analyze \/ CalculateMetrics \/ CalculateAtsScore

SpecAnalyze == InitAnalyze /\ [][NextAnalyze]_vars

\* The resumes drawn for the effect of one more description line.
RescoredResumes ==
    { Resume("jane@x.com", None, NoText, skills, raw_text, experience) :
        skills \in {<<>>, FiveSkills},
        raw_text \in {NoText, Text(FillerText(4, 1))},
        experience \in DescribedExperiences }

InitRescore ==
    /\ anaIn \in RescoredResumes
    /\ anaOut = <<>>
    /\ anaPrev = <<>>
    /\ CleanIdle
    /\ ParseIdle
    /\ ExpIdle
    /\ MatchIdle
    /\ GapIdle
    /\ ScoreIdle
    /\ FmtIdle
    /\ SkillIdle
    /\ StoreIdle

\* The lines that match a quantifiable-achievement pattern.
AchievementLines == {ShortQuant, LongQuant, ClientsLine}

\* A caller appends one achievement line to the description of an entry
\* of a scored resume; the score and the average of before are kept, and
\* the resume is to be scored again.
AppendAchievement ==
    /\ anaPrev = <<>>
    /\ anaOut # <<>>
    /\ anaOut[1].op = "score"
    /\ \E k \in 1..Len(anaIn.experience), line \in AchievementLines :
           anaIn' = [anaIn EXCEPT
                        !.experience[k].description = Append(@, line)]
    /\ anaPrev' = <<[ats_score |-> anaOut[1].result,
                     average |-> avg_description_length(anaIn)]>>
    /\ anaOut' = <<>>
    /\ UNCHANGED <<cleanVars, parseVars, expVars, matchVars, gapVars,
                   scoreVars, fmtVars, skillVars, storeVars>>

NextRescore == CalculateAtsScore \/ AppendAchievement

SpecRescore == InitRescore /\ [][NextRescore]_vars

(***************************************************************************)
(* services/ats_optimizer.py: ATSOptimizer                                 *)
(*                                                                         *)
(* A job description is a token text of alphabetic words, line feeds, ":"  *)
(* and ",".  A keyword or a skill is the sequence of its tokens.  A Python *)
(* set of strings is carried as the sequence of its members in the order   *)
(* of insertion, without repetition.                                       *)
(***************************************************************************)

\* The members of a set built from a list: each one once.
RECURSIVE Dedupe(_)
Dedupe(s) ==
    IF s = <<>> THEN <<>>
    ELSE LET r == Dedupe(SubSeq(s, 1, Len(s) - 1))
         IN  IF \E k \in 1..Len(r) : r[k] = Last(s) THEN r
             ELSE Append(r, Last(s))

\* list(a_set): a set of strings iterates in the order of the hashes, and
\* the hashes of strings change with the hash seed of the process.  The
\* seeds of the model turn the order of insertion by one place each.
ListOfSet(s, hash_seed) ==
    IF s = <<>> THEN <<>>
    ELSE SubSeq(s, (hash_seed % Len(s)) + 1, Len(s))
         \o SubSeq(s, 1, hash_seed % Len(s))

\* a_list[:n]
Take(s, n) == SubSeq(s, 1, Min(n, Len(s)))

\* resume_text = (resume.raw_text or '').lower()
ResumeText(resume) ==
    IF TruthyText(resume.raw_text) THEN LowerSeq(resume.raw_text[1]) ELSE <<>>

StopWords ==
    {"the", "a", "an", "and", "or", "but", "in", "on", "at", "to", "for",
     "of", "with", "by"}

\* \b[A-Z][a-z]+\b: the words written with one capital, at the front.
IsCapitalized(t) ==
    t \in DOMAIN FormsOf /\ t = FormsOf[t][2] /\ FormsOf[t][1] # "jane@x.com"

\* Line 105: the capitalized words, lower-cased, that are no stop words.
CapitalizedWords(text) ==
    LET kept == SelectSeq(text, LAMBDA t :
                    IsCapitalized(t) /\ Lower(t) \notin StopWords)
    IN  [i \in 1..Len(kept) |-> <<Lower(kept[i])>>]

DisciplineWords ==
    {"development", "engineering", "management", "analysis", "design"}

\* The place of the first token after place i that is no line feed, 0 when
\* there is none.
NextAcrossLines(text, i) ==
    IF \E j \in (i + 1)..Len(text) : text[j] # NL
    THEN First({j \in (i + 1)..Len(text) : text[j] # NL})
    ELSE 0

\* re.findall(r'\b\w+\s+(?:development|...|design)\b', text, IGNORECASE),
\* lower-cased: a word, white space, a discipline word; the matches do not
\* overlap.
RECURSIVE TechPhrases(_, _)
TechPhrases(text, i) ==
    IF i > Len(text) THEN <<>>
    ELSE LET j == NextAcrossLines(text, i)
         IN  IF /\ IsWordToken(text[i])
                /\ j # 0
                /\ Lower(text[j]) \in DisciplineWords
             THEN <<LowerSeq(SubSeq(text, i, j))>> \o TechPhrases(text, j + 1)
             ELSE TechPhrases(text, i + 1)

TechNames ==
    {"python", "javascript", "java", "sql", "aws", "docker", "kubernetes",
     "react", "angular"}

\* re.findall(r'\b(?:Python|...|Angular)\b', text, IGNORECASE), lower-cased.
TechTerms(text) ==
    LET kept == SelectSeq(text, LAMBDA t : Lower(t) \in TechNames)
    IN  [i \in 1..Len(kept) |-> <<Lower(kept[i])>>]

\* The places from place from on where r'<name>s?[:\s]+' matches: a token
\* that is the name, followed by ":" or by white space.
HeaderPlaces(text, names, from) ==
    {i \in from..(Len(text) - 1) :
        /\ Lower(text[i]) \in names
        /\ text[i + 1] # ","}

\* [:\s]+ is greedy: the captured group starts at the first token after
\* place i that is neither ":" nor a line feed (Len(text) + 1 when there is
\* none).
CaptureStart(text, i) ==
    IF \E j \in (i + 1)..Len(text) : text[j] \notin {":", NL}
    THEN First({j \in (i + 1)..Len(text) : text[j] \notin {":", NL}})
    ELSE Len(text) + 1

\* (.*?)(?:\n\n|\n[A-Z]|$) with IGNORECASE and DOTALL: the places of the
\* line feeds that end a group started at place start: a line feed before
\* another line feed, before a letter of either case, or at the end of the
\* text.
CaptureStops(text, start) ==
    {e \in start..Len(text) :
        /\ text[e] = NL
        /\ \/ e = Len(text)
           \/ text[e + 1] = NL
           \/ (IsWordToken(text[e + 1]) /\ text[e + 1] \notin Years)}

\* The place after the captured group.
CaptureEnd(text, start) ==
    IF CaptureStops(text, start) # {} THEN First(CaptureStops(text, start))
    ELSE Len(text) + 1

\* Lines 118-122: the words of more than 3 characters in the group after
\* the first "skill" or "skills", lower-cased.
SkillsSectionWords(text) ==
    IF HeaderPlaces(text, {"skill", "skills"}, 1) = {} THEN <<>>
    ELSE LET start == CaptureStart(text,
                          First(HeaderPlaces(text, {"skill", "skills"}, 1)))
             skills_text == SubSeq(text, start, CaptureEnd(text, start) - 1)
             kept == SelectSeq(skills_text, LAMBDA s :
                         IsWordToken(s) /\ Len(s) > 3)
         IN  [i \in 1..Len(kept) |-> <<Lower(kept[i])>>]

\* _extract_keywords without the cut to 20 keywords.
extract_keywords_uncapped(text, hash_seed) ==
    LET keywords == Dedupe(CapitalizedWords(text) \o TechPhrases(text, 1)
                           \o TechTerms(text) \o SkillsSectionWords(text))
    IN  ListOfSet(keywords, hash_seed)

\* _extract_keywords: the first 20 of the set of keywords, in the order the
\* set iterates in.
extract_keywords(text, hash_seed) ==
    LET keywords == Dedupe(CapitalizedWords(text) \o TechPhrases(text, 1)
                           \o TechTerms(text) \o SkillsSectionWords(text))
    IN  Take(ListOfSet(keywords, hash_seed), 20)

\* _suggest_missing_keywords
suggest_missing_keywords(resume, job_description, hash_seed) ==
    LET job_keywords == extract_keywords(job_description, hash_seed)
        resume_text == ResumeText(resume)
        missing_keywords ==
            SelectSeq(job_keywords, LAMBDA keyword :
                ~ContainsTokens(resume_text, LowerSeq(keyword)))
    IN  IF missing_keywords # <<>>
        THEN << <<"Consider adding these keywords from the job description",
                  Take(missing_keywords, 5)>> >>
        ELSE <<>>

\* The number of the job keywords that the resume text holds, lines 131-135.
KeywordMatches(resume, job_keywords) ==
    LET resume_text == ResumeText(resume)
    IN  Len(SelectSeq(job_keywords, LAMBDA keyword :
                ContainsTokens(resume_text, LowerSeq(keyword))))

\* _calculate_match_score.  int((matches / n) * 100) is computed in floating
\* point and truncated; for n up to 20 that is the integer quotient of
\* 100 * matches by n.
calculate_match_score(resume, job_description, hash_seed) ==
    LET job_keywords == extract_keywords(job_description, hash_seed)
        matches == KeywordMatches(resume, job_keywords)
    IN  Min(100, IF Len(job_keywords) > 0
                 THEN (matches * 100) \div Len(job_keywords)
                 ELSE 0)

\* '|' in raw_text or '\t' in raw_text
HasTables(resume) ==
    TruthyText(resume.raw_text)
        /\ \E i \in 1..Len(resume.raw_text[1]) : resume.raw_text[1][i] = "|"

\* _check_formatting
check_formatting(resume) ==
    LET section_headers == << <<"experience">>, <<"education">>,
                              <<"skills">>, <<"summary">> >>
        text_lower == ResumeText(resume)
        found_headers == SelectSeq(section_headers, LAMBDA h :
                             ContainsTokens(text_lower, h))
    IN  (IF HasTables(resume)
         THEN << <<"Avoid using tables - ATS systems may not parse them correctly">> >>
         ELSE <<>>)
        \o << <<"Use standard fonts (Arial, Calibri, Times New Roman) for better ATS compatibility">> >>
        \o (IF Len(found_headers) < 3
            THEN << <<"Ensure clear section headers (Experience, Education, Skills)">> >>
            ELSE <<>>)

\* _general_ats_suggestions
general_ats_suggestions(resume) ==
    LET raw_text == IF TruthyText(resume.raw_text) THEN resume.raw_text[1]
                    ELSE <<>>
        quantifiable_count ==
            Len(SelectSeq(raw_text, LAMBDA t : t \in PercentTokens))
            + Len(SelectSeq(raw_text, LAMBDA t : t \in DollarTokens))
            + Len(SelectSeq(raw_text, LAMBDA t : t \in PlusTokens))
        action_verbs == << <<"developed">>, <<"implemented">>, <<"managed">>,
                           <<"led">>, <<"created">>, <<"improved">> >>
        text_lower == ResumeText(resume)
        verb_count == Len(SelectSeq(action_verbs, LAMBDA verb :
                              ContainsTokens(text_lower, verb)))
    IN  (IF quantifiable_count < 3
         THEN << <<"Add more quantifiable achievements (numbers, percentages, metrics)">> >>
         ELSE <<>>)
        \o (IF verb_count < 5
            THEN << <<"Use more strong action verbs (developed, implemented, managed, led, etc.)">> >>
            ELSE <<>>)
        \o (IF ~Truthy(resume.contact_info.email)
            THEN << <<"Ensure email address is included">> >> ELSE <<>>)
        \o (IF ~Truthy(resume.contact_info.phone)
            THEN << <<"Ensure phone number is included">> >> ELSE <<>>)
        \o (IF Len(resume.skills) < 5
            THEN << <<"List at least 5-10 relevant skills">> >> ELSE <<>>)

\* _is_ats_friendly
is_ats_friendly(resume) ==
    /\ resume.contact_info.email # None
    /\ resume.contact_info.phone # None
    /\ Len(resume.experience) > 0
    /\ Len(resume.skills) >= 5
    /\ ~HasTables(resume)

\* optimize.  match_score is <<>> for None and <<n>> for the score n; an
\* empty job description is false.
optimize(resume, job_description, hash_seed) ==
    [ suggestions |->
          check_formatting(resume)
          \o (IF job_description # <<>>
              THEN suggest_missing_keywords(resume, job_description, hash_seed)
              ELSE <<>>)
          \o general_ats_suggestions(resume),
      match_score |->
          IF job_description # <<>>
          THEN <<calculate_match_score(resume, job_description, hash_seed)>>
          ELSE <<>>,
      ats_friendly |-> is_ats_friendly(resume) ]

(***************************************************************************)
(* services/skills_analyzer.py: SkillsAnalyzer                             *)
(***************************************************************************)

TechSkills ==
    << <<"python">>, <<"javascript">>, <<"java">>, <<"c++">>, <<"sql">>,
       <<"react">>, <<"node.js">>, <<"aws">>, <<"docker">>, <<"kubernetes">>,
       <<"git">>, <<"linux">>, <<"machine", "learning">>,
       <<"data", "science">>, <<"agile">>, <<"scrum">>,
       <<"project", "management">>, <<"mongodb">>, <<"postgresql">>,
       <<"redis">>, <<"kafka">>, <<"rest", "api">>, <<"graphql">>,
       <<"typescript">>, <<"angular">>, <<"vue.js">>, <<"html">>, <<"css">>,
       <<"tensorflow">>, <<"pytorch">> >>

\* re.findall(r'\b\w+(?:\s+\w+)?\b', match): a word, with the word after it
\* when only white space stands between them; the items do not overlap.
RECURSIVE SkillItems(_, _)
SkillItems(match, i) ==
    IF i > Len(match) THEN <<>>
    ELSE IF ~IsWordToken(match[i]) THEN SkillItems(match, i + 1)
    ELSE LET j == NextAcrossLines(match, i)
         IN  IF j # 0 /\ IsWordToken(match[j])
             THEN <<SubSeq(match, i, j)>> \o SkillItems(match, j + 1)
             ELSE <<SubSeq(match, i, i)>> \o SkillItems(match, i + 1)

\* re.findall(pattern, job_description, IGNORECASE | DOTALL) for one of the
\* section patterns: the captured groups, from place from on.  A match
\* that ends with a line feed and a letter takes the first letter of the
\* token after the line feed, which can then start no further match.
RECURSIVE SectionMatches(_, _, _)
SectionMatches(text, names, from) ==
    IF HeaderPlaces(text, names, from) = {} THEN <<>>
    ELSE LET start == CaptureStart(text,
                          First(HeaderPlaces(text, names, from)))
             end == CaptureEnd(text, start)
         IN  <<SubSeq(text, start, end - 1)>>
             \o SectionMatches(text, names, end + 2)

\* SectionSkills with the items added as written, not lower-cased.
RECURSIVE SectionSkillsAsWritten(_)
SectionSkillsAsWritten(matches) ==
    IF matches = <<>> THEN <<>>
    ELSE SelectSeq(SkillItems(Head(matches), 1),
                   LAMBDA item : CharLen(item) > 3)
         \o SectionSkillsAsWritten(Tail(matches))

\* The skills added from the matches of one section pattern, lines 73-78.
RECURSIVE SectionSkills(_)
SectionSkills(matches) ==
    IF matches = <<>> THEN <<>>
    ELSE LET kept == SelectSeq(SkillItems(Head(matches), 1),
                               LAMBDA item : CharLen(item) > 3)
         IN  [i \in 1..Len(kept) |-> LowerSeq(kept[i])]
             \o SectionSkills(Tail(matches))

\* _extract_skills_from_job
extract_skills_from_job(job_description) ==
    LET job_lower == LowerSeq(job_description)
    IN
    Dedupe(
        SelectSeq(TechSkills, LAMBDA skill : ContainsTokens(job_lower, skill))
        \o SectionSkills(SectionMatches(job_description,
                                        {"skill", "skills"}, 1))
        \o SectionSkills(SectionMatches(job_description,
                                        {"requirement", "requirements"}, 1))
        \o SectionSkills(SectionMatches(job_description,
                                        {"qualification", "qualifications"}, 1)))

\* s is in the set that the sequence holds
Holds(set, s) == \E k \in 1..Len(set) : set[k] = s

\* round(n / d * 100, 2), in hundredths.  No quotient of the model is half
\* way between two hundredths.
PercentHundredths(n, d) == (20000 * n + d) \div (2 * d)

\* _generate_suggestions; match_percentage is matching / job * 100, not yet
\* rounded.
generate_suggestions(matching, missing, n_job, hash_seed) ==
    (IF n_job = 0 \/ 100 * Len(matching) < 50 * n_job
     THEN << <<"Low skill match - consider adding more relevant skills from the job description">> >>
     ELSE IF 100 * Len(matching) < 75 * n_job
     THEN << <<"Moderate skill match - add a few more matching skills to improve your fit">> >>
     ELSE << <<"Good skill match - your skills align well with the job requirements">> >>)
    \o (IF missing # <<>>
        THEN << <<"Consider highlighting or adding these skills",
                  Take(ListOfSet(missing, hash_seed), 5)>> >>
        ELSE <<>>)
    \o (IF Len(matching) > 0
        THEN << <<"You have matching skills - make sure these are prominently featured",
                  Len(matching)>> >>
        ELSE <<>>)

\* a.intersection(b), and a - b for a in the order of a.
Intersection(a, b) == SelectSeq(a, LAMBDA s : Holds(b, s))
Difference(a, b) == SelectSeq(a, LAMBDA s : ~Holds(b, s))

\* GapAnalysis with the operands of the missing skills exchanged:
\* resume_skills - job_skills.
GapAnalysisMissingSwapped(resume_skills, job_skills, hash_seed) ==
    [ matching_skills |->
          ListOfSet(Intersection(resume_skills, job_skills), hash_seed),
      missing_skills |->
          ListOfSet(Difference(resume_skills, job_skills), hash_seed),
      extra_skills |->
          ListOfSet(Difference(resume_skills, job_skills), hash_seed),
      match_percentage |->
          IF job_skills # <<>>
          THEN PercentHundredths(
                   Len(Intersection(resume_skills, job_skills)),
                   Len(job_skills))
          ELSE 0,
      suggestions |->
          generate_suggestions(Intersection(resume_skills, job_skills),
                               Difference(job_skills, resume_skills),
                               Len(job_skills), hash_seed) ]

\* Lines 24-42 of analyze_gaps, from the two sets of skills;
\* match_percentage is in hundredths.
GapAnalysis(resume_skills, job_skills, hash_seed) ==
    [ matching_skills |->
          ListOfSet(Intersection(resume_skills, job_skills), hash_seed),
      missing_skills |->
          ListOfSet(Difference(job_skills, resume_skills), hash_seed),
      extra_skills |->
          ListOfSet(Difference(resume_skills, job_skills), hash_seed),
      match_percentage |->
          IF job_skills # <<>>
          THEN PercentHundredths(
                   Len(Intersection(resume_skills, job_skills)),
                   Len(job_skills))
          ELSE 0,
      suggestions |->
          generate_suggestions(Intersection(resume_skills, job_skills),
                               Difference(job_skills, resume_skills),
                               Len(job_skills), hash_seed) ]

\* analyze_gaps with the names of the resume's skills taken as written.
analyze_gaps_as_written(resume, job_description, hash_seed) ==
    GapAnalysis(Dedupe([i \in 1..Len(resume.skills) |-> resume.skills[i].name]),
                extract_skills_from_job(job_description), hash_seed)

\* analyze_gaps
analyze_gaps(resume, job_description, hash_seed) ==
    GapAnalysis(Dedupe([i \in 1..Len(resume.skills) |->
                           LowerSkill(resume.skills[i].name)]),
                extract_skills_from_job(job_description), hash_seed)

(***************************************************************************)
(* services/job_matcher.py: JobMatcher                                     *)
(***************************************************************************)

(***************************************************************************)
(* The float arithmetic of Python (IEEE 754 binary64, round to nearest,    *)
(* ties to even).  A natural number is a sequence of limbs in base 2^13,   *)
(* the least significant first; a float is [m, e] and stands for           *)
(* m * 2^e, m having at most 53 significant bits.                          *)
(***************************************************************************)

LimbBase == 2^13

RECURSIVE BigOfInt(_)
BigOfInt(n) ==
    IF n = 0 THEN <<>> ELSE <<n % LimbBase>> \o BigOfInt(n \div LimbBase)

RECURSIVE BigToInt(_)
BigToInt(x) ==
    IF x = <<>> THEN 0 ELSE x[1] + LimbBase * BigToInt(Tail(x))

\* x without its leading zero limbs.
RECURSIVE BigTrim(_)
BigTrim(x) ==
    IF x # <<>> /\ Last(x) = 0 THEN BigTrim(SubSeq(x, 1, Len(x) - 1)) ELSE x

\* x + y + carry
RECURSIVE BigAdd(_, _, _)
BigAdd(x, y, carry) ==
    IF x = <<>> /\ y = <<>>
    THEN IF carry = 0 THEN <<>> ELSE <<carry>>
    ELSE LET t == (IF x = <<>> THEN 0 ELSE x[1])
                  + (IF y = <<>> THEN 0 ELSE y[1]) + carry
         IN  <<t % LimbBase>>
             \o BigAdd(IF x = <<>> THEN <<>> ELSE Tail(x),
                       IF y = <<>> THEN <<>> ELSE Tail(y), t \div LimbBase)

\* x * k + carry, for k of one limb
RECURSIVE BigMulSmall(_, _, _)
BigMulSmall(x, k, carry) ==
    IF x = <<>>
    THEN IF carry = 0 THEN <<>> ELSE <<carry>>
    ELSE LET t == x[1] * k + carry
         IN  <<t % LimbBase>> \o BigMulSmall(Tail(x), k, t \div LimbBase)

\* x * y
RECURSIVE BigMul(_, _)
BigMul(x, y) ==
    IF y = <<>> THEN <<>>
    ELSE BigAdd(BigMulSmall(x, y[1], 0), <<0>> \o BigMul(x, Tail(y)), 0)

\* x divided by d, for d of one limb: <<quotient, remainder>>, from the
\* most significant limb down.
RECURSIVE BigDivSmall(_, _)
BigDivSmall(x, d) ==
    IF x = <<>> THEN <<(<<>>), 0>>
    ELSE LET high == BigDivSmall(Tail(x), d)
             t == high[2] * LimbBase + x[1]
         IN  <<(<<t \div d>>) \o high[1], t % d>>

\* x * 2^n
BigShl(x, n) ==
    [i \in 1..(n \div 13) |-> 0]
    \o BigMulSmall(x, 2^(n % 13), 0)

\* x \div 2^n
BigShr(x, n) ==
    IF n \div 13 >= Len(x) THEN <<>>
    ELSE BigDivSmall(SubSeq(x, n \div 13 + 1, Len(x)),
                     2^(n % 13))[1]

\* Bit i of x, bit 0 being the least significant.
BigBit(x, i) ==
    IF i \div 13 >= Len(x) THEN 0
    ELSE (x[i \div 13 + 1] \div 2^(i % 13)) % 2

\* x % 2^n = 0
BigLowZero(x, n) ==
    /\ \A i \in 1..(n \div 13) : i <= Len(x) => x[i] = 0
    /\ n \div 13 < Len(x) =>
           x[n \div 13 + 1] % 2^(n % 13) = 0

\* The number of bits of a limb, and of x.
RECURSIVE BitsOf(_)
BitsOf(k) == IF k = 0 THEN 0 ELSE 1 + BitsOf(k \div 2)

BitLen(x) ==
    IF BigTrim(x) = <<>> THEN 0
    ELSE (Len(BigTrim(x)) - 1) * 13 + BitsOf(Last(BigTrim(x)))

\* x / 2^n rounded to the nearest integer, a half to the even one (n >= 1).
RoundShr(x, n) ==
    IF BigBit(x, n - 1) = 1 /\ (~BigLowZero(x, n - 1) \/ BigBit(x, n) = 1)
    THEN BigAdd(BigShr(x, n), <<1>>, 0)
    ELSE BigShr(x, n)

\* The float nearest to x * 2^e.
RoundTo53(x, e) ==
    IF BitLen(x) <= 53 THEN [m |-> BigTrim(x), e |-> e]
    ELSE [m |-> BigTrim(RoundShr(x, BitLen(x) - 53)),
          e |-> e + (BitLen(x) - 53)]

\* float(n) of a small integer
FloatOfInt(n) == [m |-> BigOfInt(n), e |-> 0]

\* n / d of two small integers, d > 0.  The quotient is taken to 70
\* binary places and one more that tells whether the division left a
\* remainder.
FloatQuot(n, d) ==
    LET qr == BigDivSmall(BigShl(BigOfInt(n), 70), d)
    IN  RoundTo53(BigAdd(BigShl(qr[1], 1),
                         IF qr[2] # 0 THEN <<1>> ELSE <<>>, 0),
                  0 - 71)

\* The float written n / 100 in decimal with two places: 0.6 is
\* FloatOfHundredths(60).
FloatOfHundredths(n) == FloatQuot(n, 100)

\* x < y of two natural numbers, without leading zero limbs.
RECURSIVE BigLess(_, _)
BigLess(x, y) ==
    IF Len(x) # Len(y) THEN Len(x) < Len(y)
    ELSE IF x = <<>> THEN FALSE
    ELSE IF Last(x) # Last(y) THEN Last(x) < Last(y)
    ELSE BigLess(SubSeq(x, 1, Len(x) - 1), SubSeq(y, 1, Len(y) - 1))

\* a < b of two floats
FloatLess(a, b) ==
    LET e == IF a.e <= b.e THEN a.e ELSE b.e
    IN  BigLess(BigTrim(BigShl(a.m, a.e - e)), BigTrim(BigShl(b.m, b.e - e)))

\* a * b of two floats
FloatMul(a, b) == RoundTo53(BigMul(a.m, b.m), a.e + b.e)

\* a + b of two floats
FloatAdd(a, b) ==
    LET e == IF a.e <= b.e THEN a.e ELSE b.e
    IN  RoundTo53(BigAdd(BigShl(a.m, a.e - e), BigShl(b.m, b.e - e), 0), e)

\* round(x) of a float: the nearest integer, a half to the even one.
FloatRound(x) ==
    IF x.e >= 0 THEN BigToInt(BigShl(x.m, x.e))
    ELSE BigToInt(RoundShr(x.m, 0 - x.e))

\* _calculate_overall_score with the two weights exchanged.
calculate_overall_score_swapped(skills_analysis, ats_analysis) ==
    LET skills_score == FloatOfHundredths(skills_analysis.match_percentage)
        ats_score == IF ats_analysis.match_score # <<>>
                     THEN ats_analysis.match_score[1] ELSE 0
    IN  FloatRound(FloatAdd(FloatMul(skills_score, FloatOfHundredths(40)),
                            FloatMul(FloatOfInt(ats_score),
                                     FloatOfHundredths(60))))

\* _calculate_overall_score: round(skills_score * 0.6 + ats_score * 0.4),
\* with ats_score the match_score or 0.  match_percentage is in hundredths.
calculate_overall_score(skills_analysis, ats_analysis) ==
    LET skills_score == FloatOfHundredths(skills_analysis.match_percentage)
        ats_score == IF ats_analysis.match_score # <<>>
                     THEN ats_analysis.match_score[1] ELSE 0
    IN  FloatRound(FloatAdd(FloatMul(skills_score, FloatOfHundredths(60)),
                            FloatMul(FloatOfInt(ats_score),
                                     FloatOfHundredths(40))))

\* _generate_recommendations
generate_recommendations(skills_analysis, ats_analysis) ==
    (IF skills_analysis.match_percentage < 7000
     THEN << <<"Add more skills from the job description to improve your match">> >>
     ELSE <<>>)
    \o (IF skills_analysis.missing_skills # <<>>
        THEN << <<"Prioritize adding these skills",
                  Take(skills_analysis.missing_skills, 3)>> >>
        ELSE <<>>)
    \o Take(ats_analysis.suggestions, 2)

\* match
match(resume, job_description, hash_seed) ==
    LET skills_analysis == analyze_gaps(resume, job_description, hash_seed)
        ats_analysis == optimize(resume, job_description, hash_seed)
    IN  [ overall_match_score |->
              calculate_overall_score(skills_analysis, ats_analysis),
          skills_analysis |-> skills_analysis,
          ats_analysis |-> ats_analysis,
          recommendations |->
              generate_recommendations(skills_analysis, ats_analysis) ]

(***************************************************************************)
(* services/format_optimizer.py: FormatOptimizer                           *)
(*                                                                         *)
(* The characters outside ASCII are tokens named by their code point:      *)
(* "U+2022" is the bullet, "U+00A9" the copyright sign.                    *)
(***************************************************************************)

\* Line 60: some length is below avg_length * 0.5.
SomeShort(lengths, avg_length) ==
    \E k \in 1..Len(lengths) :
        FloatLess(FloatOfInt(lengths[k]),
                  FloatMul(avg_length, [m |-> <<1>>, e |-> 0 - 1]))

\* Line 64: some length is above avg_length * 1.5.
SomeLong(lengths, avg_length) ==
    \E k \in 1..Len(lengths) :
        FloatLess(FloatMul(avg_length, [m |-> <<3>>, e |-> 0 - 1]),
                  FloatOfInt(lengths[k]))

\* Lines 57-66, for a list of lengths that is not empty.
LengthImprovements(lengths, avg_length) ==
    (IF SomeShort(lengths, avg_length)
     THEN << <<"Some descriptions are too short - consider adding more detail">> >>
     ELSE <<>>)
    \o (IF SomeLong(lengths, avg_length)
        THEN << <<"Some descriptions are too long - consider condensing">> >>
        ELSE <<>>)

\* desc.startswith('U+2022') or desc.startswith('-')
HasBullet(desc) == desc # <<>> /\ desc[1] \in {"U+2022", "-"}

\* Lines 70-77 for one entry: a description differs from the first.
MixedBullets(exp) ==
    \E k \in 2..Len(exp.description) :
        HasBullet(exp.description[k]) # HasBullet(exp.description[1])

\* _fix_spacing_issues
fix_spacing_issues(resume) ==
    (IF AllDescriptions(resume.experience) # <<>>
     THEN LengthImprovements(
              [k \in 1..Len(AllDescriptions(resume.experience)) |->
                  CharLen(AllDescriptions(resume.experience)[k])],
              FloatQuot(SumLen(AllDescriptions(resume.experience)),
                        Len(AllDescriptions(resume.experience))))
     ELSE <<>>)
    \o (IF \E i \in 1..Len(resume.experience) :
               MixedBullets(resume.experience[i])
        THEN << <<"Inconsistent bullet point formatting - standardize bullet style">> >>
        ELSE <<>>)

\* The tokens that hold a slash, and those that hold a hyphen.
SlashTokens == {"01/2020", "01/2019"}
HyphenTokens == {"-", "2020-01", "555-123-4567"}

\* _detect_date_format
detect_date_format(date_str) ==
    IF \E i \in 1..Len(date_str) : date_str[i] \in SlashTokens THEN "slash"
    ELSE IF \E i \in 1..Len(date_str) : date_str[i] \in HyphenTokens
    THEN "dash"
    ELSE IF Len(date_str) = 1 /\ date_str[1] \in Years THEN "year_only"
    ELSE "other"

\* str.isupper() of the first character of a text.
FirstIsUpper(text) ==
    /\ text[1] \in DOMAIN FormsOf
    /\ text[1] \in {FormsOf[text[1]][2], FormsOf[text[1]][3]}

\* _fix_formatting_consistency
fix_formatting_consistency(resume) ==
    (IF Cardinality({detect_date_format(resume.experience[i].start_date) :
                        i \in {j \in 1..Len(resume.experience) :
                                  resume.experience[j].start_date # <<>>}}) > 1
     THEN << <<"Inconsistent date formats - use consistent format (e.g., 'MM/YYYY')">> >>
     ELSE <<>>)
    \o (IF \E i \in 1..Len(resume.experience) :
               \/ /\ resume.experience[i].position # <<>>
                  /\ ~FirstIsUpper(resume.experience[i].position)
               \/ /\ resume.experience[i].company # <<>>
                  /\ ~FirstIsUpper(resume.experience[i].company)
        THEN << <<"Ensure proper capitalization for position titles and company names">> >>
        ELSE <<>>)

\* The text lower-cased, (resume.raw_text or '').lower().
RawTextLower(resume) ==
    IF resume.raw_text = NoText THEN <<>> ELSE LowerSeq(resume.raw_text[1])

\* _ensure_ats_compatibility
ensure_ats_compatibility(resume) ==
    (IF HasTables(resume)
     THEN << <<"Remove tables - use standard formatting for better ATS compatibility">> >>
     ELSE <<>>)
    \o (IF /\ resume.raw_text # NoText
           /\ \E i \in 1..Len(resume.raw_text[1]) :
                  resume.raw_text[1][i]
                      \in {"U+00A9", "U+00AE", "U+2122", "U+2022"}
        THEN << <<"Replace special characters with standard alternatives for ATS compatibility">> >>
        ELSE <<>>)
    \o (IF Cardinality({h \in {"experience", "education", "skills", "summary"} :
                           \E i \in 1..Len(RawTextLower(resume)) :
                               RawTextLower(resume)[i] = h}) < 3
        THEN << <<"Ensure clear section headers are present (Experience, Education, Skills)">> >>
        ELSE <<>>)

\* int(start_date[:4]) if len(start_date) >= 4 else 0, lines 164-165.
StartYear(exp) ==
    IF CharLen(exp.start_date) >= 4 THEN IntOfPrefix(exp.start_date)
    ELSE [raised |-> None, value |-> 0]

\* Lines 162-170: some entry starts in an earlier year than the next one;
\* the comparison is skipped when int() raises.
OutOfOrder(experience) ==
    \E i \in 1..(Len(experience) - 1) :
        /\ StartYear(experience[i]).raised = None
        /\ StartYear(experience[i + 1]).raised = None
        /\ StartYear(experience[i]).value > 0
        /\ StartYear(experience[i + 1]).value > 0
        /\ StartYear(experience[i]).value < StartYear(experience[i + 1]).value

\* _optimize_structure.  Lines 176-180 add nothing: a list that is true is
\* not of length 0.
optimize_structure(resume) ==
    (IF TruthyText(resume.summary) /\ CharLen(resume.summary[1]) > 500
     THEN << <<"Summary is too long - keep it under 3-4 sentences">> >>
     ELSE <<>>)
    \o (IF Len(resume.experience) > 1 /\ OutOfOrder(resume.experience)
        THEN << <<"Ensure experience is listed in reverse chronological order (most recent first)">> >>
        ELSE <<>>)

\* get_formatting_suggestions
get_formatting_suggestions(resume) ==
    fix_spacing_issues(resume)
    \o fix_formatting_consistency(resume)
    \o ensure_ats_compatibility(resume)
    \o optimize_structure(resume)

\* FormatOptimizer.optimize with the order of the experience entries
\* corrected in the resume passed in.
FormatOptimizer_optimize_reordered(resume) ==
    [ improvements_applied |->
          fix_spacing_issues(resume)
          \o fix_formatting_consistency(resume)
          \o ensure_ats_compatibility(resume)
          \o optimize_structure(resume),
      optimized_resume |->
          IF OutOfOrder(resume.experience)
          THEN [resume EXCEPT !.experience =
                   [i \in 1..Len(@) |-> @[Len(@) - i + 1]]]
          ELSE resume,
      summary |->
          <<"Applied formatting improvements",
            Len(fix_spacing_issues(resume))
            + Len(fix_formatting_consistency(resume))
            + Len(ensure_ats_compatibility(resume))
            + Len(optimize_structure(resume))>> ]

\* FormatOptimizer.optimize; the optimized copy is the resume passed in,
\* line 45, and the summary is the text with the number of improvements.
FormatOptimizer_optimize(resume) ==
    [ improvements_applied |->
          fix_spacing_issues(resume)
          \o fix_formatting_consistency(resume)
          \o ensure_ats_compatibility(resume)
          \o optimize_structure(resume),
      optimized_resume |-> resume,
      summary |->
          <<"Applied formatting improvements",
            Len(fix_spacing_issues(resume))
            + Len(fix_formatting_consistency(resume))
            + Len(ensure_ats_compatibility(resume))
            + Len(optimize_structure(resume))>> ]

(***************************************************************************)
(* The matching of a resume with a job description, run more than once     *)
(***************************************************************************)

MaxRuns == 2
MaxSeed == 2

HashSeeds == 0..MaxSeed

\* The words of the job descriptions, each written with one capital.
JobWords ==
    <<"Engineer", "Acme", "Corp", "Present", "Current", "Built", "Systems",
      "Growth", "Grew", "Increased", "Served", "Helped", "Revenue",
      "Through", "Streamlined", "Operations", "Worldwide", "Clients",
      "Years", "Various", "Teams", "Doe">>

\* The job descriptions: the first words of JobWords on a line, and then
\* nothing, a skills section, a requirements section or two skills
\* sections.
JobDescriptions ==
    { SubSeq(JobWords, 1, n) \o tail :
        n \in {0, 2, 3, 21, 22},
        tail \in { <<>>,
                   <<NL, "Skills", ":", "Python", ",", "Sql", ",", "Aws">>,
                   <<NL, "Requirements", ":", "Project", "Management", NL,
                     "Docker">>,
                   <<NL, "Skills", ":", "Python", NL, "Skills", ":",
                     "Docker">> } }

\* What a resume text holds after the job words: nothing, or the section
\* headers, action verbs and figures, with or without a table.
ResumeLines ==
    <<NL, "Experience", NL, "Education", NL, "Skills", NL, "python",
      "developed", "implemented", "managed", "led", "created", "50%", "10+",
      "$5000">>

MatchedTexts ==
    {NoText} \cup
    { Text(LowerSeq(SubSeq(JobWords, 1, k)) \o rest) :
        k \in {0, 1, 2, 22},
        rest \in {<<>>, ResumeLines, ResumeLines \o <<"|">>} }

MatchedResumes ==
    { Resume(contact[1], contact[2], NoText, skills, raw_text, contact[3]) :
        contact \in { <<None, None, <<>> >>,
                      <<"jane@x.com", "555-123-4567",
                        <<Entry(<<"2020">>, None, <<>>)>> >> },
        skills \in {<<>>, <<[name |-> <<"Python">>]>>, FiveSkills},
        raw_text \in MatchedTexts }

InitMatch ==
    /\ matchIn \in [resume : MatchedResumes,
                    job_description : JobDescriptions]
    /\ matchOut = <<>>
    /\ CleanIdle
    /\ ParseIdle
    /\ ExpIdle
    /\ AnaIdle
    /\ GapIdle
    /\ ScoreIdle
    /\ FmtIdle
    /\ SkillIdle
    /\ StoreIdle

\* One run of ATSOptimizer.optimize, in a process with some hash seed.
Optimize ==
    /\ Len(matchOut) < MaxRuns
    /\ \E hash_seed \in HashSeeds :
           matchOut' = Append(matchOut,
               [op |-> "optimize", hash_seed |-> hash_seed,
                result |-> optimize(matchIn.resume, matchIn.job_description,
                                    hash_seed)])
    /\ UNCHANGED <<matchIn, cleanVars, parseVars, expVars, anaVars, gapVars,
                   scoreVars, fmtVars, skillVars, storeVars>>

\* One run of JobMatcher.match, in a process with some hash seed.
Match ==
    /\ Len(matchOut) < MaxRuns
    /\ \E hash_seed \in HashSeeds :
           matchOut' = Append(matchOut,
               [op |-> "match", hash_seed |-> hash_seed,
                result |-> match(matchIn.resume, matchIn.job_description,
                                 hash_seed)])
    /\ UNCHANGED <<matchIn, cleanVars, parseVars, expVars, anaVars, gapVars,
                   scoreVars, fmtVars, skillVars, storeVars>>

NextMatch == Optimize \/ Match

SpecMatch == InitMatch /\ [][NextMatch]_vars

(***************************************************************************)
(* analyze_gaps on its own                                                 *)
(***************************************************************************)

\* Most skills of a resume drawn for analyze_gaps.
MaxSkills == 3

\* The skill names of the resumes.
SkillNames ==
    { <<"Python">>, <<"python">>, <<"Docker">>, <<"Kubernetes">>,
      <<"Project", "Management">> }

\* The job descriptions that mention Python, Docker, Kubernetes and no
\* other skill: the three names alone, after a line of other words, and in
\* a skills section.
ThreeSkillJobs ==
    { <<"Python", ",", "Docker", ",", "Kubernetes">>,
      <<"Engineer", "Acme", NL, "Python", ",", "Docker", ",", "Kubernetes">>,
      <<"Skills", ":", "Python", ",", "Docker", ",", "Kubernetes">> }

\* The job descriptions: also the empty one, one that names no skill, a
\* requirements section and a skills section with no comma.
GapJobDescriptions ==
    ThreeSkillJobs \cup
    { <<>>,
      <<"Engineer", "Acme">>,
      <<"Requirements", ":", "Project", "Management", NL, "Docker">>,
      <<"Skills", ":", "Python", "Docker">> }

GapResumes ==
    { Resume(None, None, NoText,
             [i \in 1..Len(names) |-> [name |-> names[i]]], NoText, <<>>) :
        names \in SeqsUpTo(SkillNames, MaxSkills) }

InitGaps ==
    /\ gapIn \in [resume : GapResumes,
                  job_description : GapJobDescriptions,
                  hash_seed : HashSeeds]
    /\ gapOut = <<>>
    /\ CleanIdle
    /\ ParseIdle
    /\ ExpIdle
    /\ AnaIdle
    /\ MatchIdle
    /\ ScoreIdle
    /\ FmtIdle
    /\ SkillIdle
    /\ StoreIdle

\* One call of SkillsAnalyzer.analyze_gaps.
AnalyzeGaps ==
    /\ gapOut = <<>>
    /\ gapOut' = <<analyze_gaps(gapIn.resume, gapIn.job_description,
                                gapIn.hash_seed)>>
    /\ UNCHANGED <<gapIn, cleanVars, parseVars, expVars, anaVars, matchVars,
                   scoreVars, fmtVars, skillVars, storeVars>>

NextGaps == AnalyzeGaps

SpecGaps == InitGaps /\ [][NextGaps]_vars

\* The lower-cased names of the resume's skills, as a set.
ResumeSkillSet(resume) ==
    {LowerSkill(resume.skills[i].name) : i \in 1..Len(resume.skills)}

\* C13: skills-gap identity: if the job skill set extracted by
\* _extract_skills_from_job is not empty and the lower-cased resume skill
\* set is a superset of it, analyze_gaps returns match_percentage 100.0 and
\* an empty missing_skills list.
C13_SupersetMatchesFully ==
    (/\ gapOut # <<>>
     /\ extract_skills_from_job(gapIn.job_description) # <<>>
     /\ Elements(extract_skills_from_job(gapIn.job_description))
            \subseteq ResumeSkillSet(gapIn.resume)) =>
        /\ gapOut[1].match_percentage = 10000
        /\ gapOut[1].missing_skills = <<>>

\* A resume with the three skills of the job and one more was analyzed.
C13_Witness ==
    /\ gapOut # <<>>
    /\ gapIn.job_description \in ThreeSkillJobs
    /\ ResumeSkillSet(gapIn.resume) =
           {<<"python">>, <<"docker">>, <<"kubernetes">>}
    /\ Len(gapIn.resume.skills) = 3
    /\ gapOut[1].match_percentage = 10000
    /\ gapOut[1].missing_skills = <<>>

\* C16: for a job description whose only skill mentions are Python, Docker,
\* Kubernetes and a resume whose skills are exactly Python, analyze_gaps
\* returns missing_skills holding docker and kubernetes, matching_skills
\* equal to {python}, and match_percentage 33.33.
C16_GapScenario ==
    (/\ gapOut # <<>>
     /\ gapIn.job_description \in ThreeSkillJobs
     /\ gapIn.resume.skills = <<[name |-> <<"Python">>]>>) =>
        /\ {<<"docker">>, <<"kubernetes">>}
               \subseteq Elements(gapOut[1].missing_skills)
        /\ Elements(gapOut[1].matching_skills) = {<<"python">>}
        /\ Len(gapOut[1].matching_skills) = 1
        /\ gapOut[1].match_percentage = 3333

\* The scenario was run, on the job description with a skills section.
C16_Witness ==
    /\ gapOut # <<>>
    /\ gapIn.job_description =
           <<"Skills", ":", "Python", ",", "Docker", ",", "Kubernetes">>
    /\ gapIn.resume.skills = <<[name |-> <<"Python">>]>>
    /\ gapOut[1].match_percentage = 3333
    /\ Len(gapOut[1].missing_skills) = 2

\* A list without a repeated element.
NoRepeat(list) == Cardinality(Elements(list)) = Len(list)

\* C23: in every skills-gap result, matching_skills is the intersection
\* of the lower-cased resume skill set and the job skill set,
\* missing_skills is job minus resume and extra_skills is resume minus
\* job; the three lists are pairwise disjoint, matching and missing make
\* up the job skill set, matching and extra the resume skill set, and
\* match_percentage is 0 when the job skill set is empty.
C23_GapSets ==
    gapOut # <<>> =>
        LET job == Elements(extract_skills_from_job(gapIn.job_description))
            mine == ResumeSkillSet(gapIn.resume)
            matching == Elements(gapOut[1].matching_skills)
            missing == Elements(gapOut[1].missing_skills)
            extra == Elements(gapOut[1].extra_skills)
        IN  /\ matching = mine \cap job
            /\ missing = job \ mine
            /\ extra = mine \ job
            /\ NoRepeat(gapOut[1].matching_skills)
            /\ NoRepeat(gapOut[1].missing_skills)
            /\ NoRepeat(gapOut[1].extra_skills)
            /\ matching \cap missing = {}
            /\ matching \cap extra = {}
            /\ missing \cap extra = {}
            /\ matching \cup missing = job
            /\ matching \cup extra = mine
            /\ job = {} => gapOut[1].match_percentage = 0

\* A resume that names Python in two letter cases and a skill the job
\* does not ask for was analyzed against a job with three skills: each of
\* the three lists holds a name.
C23_Witness ==
    /\ gapOut # <<>>
    /\ gapIn.job_description \in ThreeSkillJobs
    /\ {<<"Python">>, <<"python">>, <<"Project", "Management">>}
           = {gapIn.resume.skills[i].name : i \in 1..Len(gapIn.resume.skills)}
    /\ gapOut[1].matching_skills = <<<<"python">>>>
    /\ Len(gapOut[1].missing_skills) = 2
    /\ gapOut[1].extra_skills = <<<<"project", "management">>>>

(***************************************************************************)
(* _calculate_overall_score on its own, over the valid sub-scores          *)
(***************************************************************************)

\* The distance, in hundredths, between two match percentages drawn.
PercentStep == 50

\* The match percentages drawn, in hundredths: 0.00 to 100.00.
MatchPercentages == {PercentStep * k : k \in 0..(10000 \div PercentStep)}

\* The ATS match scores drawn: None, or an integer of 0..100.
MatchScores == {<<>>} \cup {<<n>> : n \in 0..100}

InitScore ==
    /\ scoreIn \in [skills_analysis : [match_percentage : MatchPercentages],
                    ats_analysis : [match_score : MatchScores]]
    /\ scoreOut = <<>>
    /\ CleanIdle
    /\ ParseIdle
    /\ ExpIdle
    /\ AnaIdle
    /\ MatchIdle
    /\ GapIdle
    /\ FmtIdle
    /\ SkillIdle
    /\ StoreIdle

\* One call of _calculate_overall_score.
CalculateOverallScore ==
    /\ scoreOut = <<>>
    /\ scoreOut' = <<calculate_overall_score(scoreIn.skills_analysis,
                                             scoreIn.ats_analysis)>>
    /\ UNCHANGED <<scoreIn, cleanVars, parseVars, expVars, anaVars, matchVars,
                   gapVars, fmtVars, skillVars, storeVars>>

NextScore == CalculateOverallScore

SpecScore == InitScore /\ [][NextScore]_vars

\* match_score or 0
OrZero(match_score) == IF match_score = <<>> THEN 0 ELSE match_score[1]

\* C12: job-match formula: for every skills match_percentage of 0.00 to
\* 100.00 and every ATS match_score that is None or an integer of 0 to 100,
\* the overall score is round(0.6 * match_percentage + 0.4 * (match_score
\* or 0)), the arithmetic and round() being those of Python's floats.
C12_OverallScoreFormula ==
    scoreOut # <<>> =>
        scoreOut[1] =
            FloatRound(
                FloatAdd(
                    FloatMul(FloatOfHundredths(60),
                             FloatOfHundredths(
                                 scoreIn.skills_analysis.match_percentage)),
                    FloatMul(FloatOfHundredths(40),
                             FloatOfInt(
                                 OrZero(scoreIn.ats_analysis.match_score)))))

\* The score of 28.50 and 1: the float sum is just below 17.5 and the
\* score is 17.
C12_Witness ==
    /\ scoreOut # <<>>
    /\ scoreIn.skills_analysis.match_percentage = 2850
    /\ scoreIn.ats_analysis.match_score = <<1>>
    /\ scoreOut[1] = 17

(***************************************************************************)
(* FormatOptimizer on its own                                              *)
(***************************************************************************)

\* The experience entries of the formatted resumes: a company and a
\* position with or without a capital, start dates of each format, and
\* descriptions with and without bullets.
FormatEntries ==
    { [ company |-> company, position |-> position,
        start_date |-> start_date, end_date |-> None, current |-> TRUE,
        description |-> description ] :
        company \in {<<"Acme">>, <<"acme">>},
        position \in {<<"Engineer">>, <<"2020">>},
        start_date \in {<<"2020">>, <<"2019">>, <<"Jan", "2020">>,
                        <<"01/2020">>, <<"2020-01">>},
        description \in { <<>>,
                          <<PlainLine, <<"-", "Built", "systems">> >>,
                          <<LongQuant, <<"Built">> >> } }

FormatResumes ==
    { Resume(None, None, summary, <<>>, raw_text, experience) :
        summary \in {NoText, Text(FillerText(4, 1)), Text(FillerText(3, 2))},
        raw_text \in { NoText,
                       Text(<<"Experience", NL, "Education", NL, "Skills">>),
                       Text(<<"SUMMARY", "U+2022", "|", "skills">>) },
        experience \in SeqsUpTo(FormatEntries, MaxEntries) }

InitFormat ==
    /\ fmtIn \in FormatResumes
    /\ fmtOut = <<>>
    /\ CleanIdle
    /\ ParseIdle
    /\ ExpIdle
    /\ AnaIdle
    /\ MatchIdle
    /\ GapIdle
    /\ ScoreIdle
    /\ SkillIdle
    /\ StoreIdle

\* One call of FormatOptimizer.optimize.
FormatOptimize ==
    /\ fmtOut = <<>>
    /\ fmtOut' = <<[op |-> "optimize",
                    result |-> FormatOptimizer_optimize(fmtIn)]>>
    /\ UNCHANGED <<fmtIn, cleanVars, parseVars, expVars, anaVars, matchVars,
                   gapVars, scoreVars, skillVars, storeVars>>

\* One call of FormatOptimizer.get_formatting_suggestions.
GetFormattingSuggestions ==
    /\ fmtOut = <<>>
    /\ fmtOut' = <<[op |-> "get_formatting_suggestions",
                    result |-> get_formatting_suggestions(fmtIn)]>>
    /\ UNCHANGED <<fmtIn, cleanVars, parseVars, expVars, anaVars, matchVars,
                   gapVars, scoreVars, skillVars, storeVars>>

NextFormat == FormatOptimize \/ GetFormattingSuggestions

SpecFormat == InitFormat /\ [][NextFormat]_vars

(***************************************************************************)
(* The services on one Resume record, each called once or more             *)
(***************************************************************************)

\* The minimal records: a name, no summary, empty lists, and a raw text
\* that is None or empty.
MinimalResumes ==
    { Resume(None, None, NoText, <<>>, raw_text, <<>>) :
        raw_text \in {NoText, Text(<<>>)} }

\* The records the services are called on: the minimal ones, and one with
\* an experience entry that has a description line.
ServiceResumes ==
    MinimalResumes \cup
    { Resume(None, None, NoText, <<>>, NoText,
             <<Entry(<<"2020">>, None, <<PlainLine>>)>>) }

\* The job descriptions: none, one that names no skill, one with a skills
\* section.
ServiceJobs ==
    { <<>>,
      <<"Engineer", "Acme">>,
      <<"Skills", ":", "Python", ",", "Docker", ",", "Kubernetes">> }

InitServices ==
    /\ \E resume \in ServiceResumes, job_description \in ServiceJobs :
           /\ anaIn = resume
           /\ fmtIn = resume
           /\ matchIn = [resume |-> resume,
                         job_description |-> job_description]
           /\ \E hash_seed \in HashSeeds :
                  gapIn = [resume |-> resume,
                           job_description |-> job_description,
                           hash_seed |-> hash_seed]
    /\ anaOut = <<>>
    /\ anaPrev = <<>>
    /\ matchOut = <<>>
    /\ gapOut = <<>>
    /\ fmtOut = <<>>
    /\ CleanIdle
    /\ ParseIdle
    /\ ExpIdle
    /\ ScoreIdle
    /\ SkillIdle
    /\ StoreIdle

NextServices ==
    \/ Analyze
    \/ Optimize
    \/ AnalyzeGaps
    \/ FormatOptimize
    \/ GetFormattingSuggestions

SpecServices == InitServices /\ [][NextServices]_vars

\* C14: on a minimal Resume record (only a name, no summary, empty lists,
\* raw_text empty or None) ResumeAnalyzer.analyze, ATSOptimizer.optimize
\* with and without a job description, SkillsAnalyzer.analyze_gaps and
\* FormatOptimizer.optimize and get_formatting_suggestions each return a
\* result without raising: the analysis with its score, the suggestions
\* with a match score exactly when a job description is given, the gap
\* analysis with empty lists of matching and extra skills, and the list of
\* formatting improvements.
C14_MinimalRecordIsSafe ==
    anaIn \in MinimalResumes =>
        /\ anaOut # <<>> =>
               /\ anaOut[1].result.raised = None
               /\ anaOut[1].result.ats_score \in 0..100
        /\ \A k \in 1..Len(matchOut) :
               /\ matchOut[k].result.suggestions # <<>>
               /\ matchOut[k].result.match_score = <<>>
                      <=> matchIn.job_description = <<>>
               /\ matchOut[k].result.ats_friendly = FALSE
        /\ gapOut # <<>> =>
               /\ gapOut[1].matching_skills = <<>>
               /\ gapOut[1].extra_skills = <<>>
               /\ gapOut[1].match_percentage = 0
        /\ (fmtOut # <<>> /\ fmtOut[1].op = "optimize") =>
               /\ Len(fmtOut[1].result.improvements_applied) = 1
               /\ fmtOut[1].result.summary[2] = 1
               /\ fmtOut[1].result.optimized_resume = fmtIn
        /\ (fmtOut # <<>> /\ fmtOut[1].op = "get_formatting_suggestions") =>
               Len(fmtOut[1].result) = 1

\* A minimal record with raw_text None went through the analyzer, the
\* ATS optimizer with a job description, the gap analysis and the format
\* optimizer.
C14_Witness ==
    /\ anaIn \in MinimalResumes
    /\ anaIn.raw_text = NoText
    /\ anaOut # <<>>
    /\ anaOut[1].result.raised = None
    /\ matchIn.job_description # <<>>
    /\ matchOut # <<>>
    /\ gapOut # <<>>
    /\ fmtOut # <<>>
    /\ fmtOut[1].op = "optimize"

(***************************************************************************)
(* services/storage.py: ResumeStorage                                      *)
(*                                                                         *)
(* self.resumes is a function from the ids stored to the Resume of each.   *)
(* A Resume carries, next to its content, id, version, versions, industry  *)
(* and tags.  A ResumeVersion is [version, changes, resume_data]; the      *)
(* dict that resume.dict() returns is the record itself, a value that no   *)
(* later assignment reaches.  created_at is not carried.                   *)
(***************************************************************************)

\* Resume(id=..., ...): version 1, versions [] and tags [] (resume_model.py
\* lines 72-83).
NewResume(id, content) ==
    [ id |-> id,
      contact_info |-> content.contact_info,
      summary |-> content.summary,
      experience |-> content.experience,
      skills |-> content.skills,
      certifications |-> content.certifications,
      raw_text |-> content.raw_text,
      version |-> 1,
      versions |-> <<>>,
      industry |-> None,
      tags |-> <<>> ]

\* resume.dict(): the values of the fields, nested models included, in a
\* dict of its own, which no later assignment to the resume reaches.
Resume_dict(resume) == [field \in DOMAIN resume |-> resume[field]]

\* Resume(**data), resume_model.py lines 72-83: the fields of the dict,
\* with [] for versions and tags that are None.
Resume_init(data) ==
    [field \in DOMAIN data |->
        IF field \in {"versions", "tags"} /\ data[field] = None THEN <<>>
        ELSE data[field]]

\* save, lines 16-40.  is_existing: the resume passed in is the object
\* that self.resumes holds for its id, so that existing is resume and the
\* assignment of line 28 is seen through both names.
save(self_resumes, resume, is_existing, create_version, change_description) ==
    IF create_version /\ resume.id \in DOMAIN self_resumes
    THEN LET numbered ==
                 [resume EXCEPT !.version = self_resumes[resume.id].version + 1]
             existing == IF is_existing THEN numbered
                         ELSE self_resumes[resume.id]
             version == [ version |-> existing.version,
                          changes |-> change_description,
                          resume_data |-> Resume_dict(existing) ]
         IN  DictPut(self_resumes, resume.id,
                     [numbered EXCEPT !.versions = existing.versions \o <<version>>])
    ELSE DictPut(self_resumes, resume.id, resume)

\* get, lines 42-44: <<>> is None and <<r>> is the resume r.
get(self_resumes, resume_id) ==
    IF resume_id \in DOMAIN self_resumes THEN <<self_resumes[resume_id]>>
    ELSE <<>>

\* get_version that looks in the history only.
get_version_history_only(self_resumes, resume_id, version) ==
    IF get(self_resumes, resume_id) = <<>> THEN <<>>
    ELSE LET resume == get(self_resumes, resume_id)[1]
             found == {k \in 1..Len(resume.versions) :
                          resume.versions[k].version = version}
         IN  IF found # {}
             THEN <<Resume_init(
                        resume.versions[CHOOSE k \in found :
                                            \A m \in found : k <= m].resume_data)>>
             ELSE <<>>

\* get_version, lines 46-62: the data of the first snapshot with the
\* version asked for, else the stored resume if that is its version.
get_version(self_resumes, resume_id, version) ==
    IF get(self_resumes, resume_id) = <<>> THEN <<>>
    ELSE LET resume == get(self_resumes, resume_id)[1]
             found == {k \in 1..Len(resume.versions) :
                          resume.versions[k].version = version}
         IN  IF found # {}
             THEN <<Resume_init(
                        resume.versions[CHOOSE k \in found :
                                            \A m \in found : k <= m].resume_data)>>
             ELSE IF resume.version = version THEN <<resume>>
             ELSE <<>>

\* create_version with the snapshot labelled with the new version number.
create_version_new_label(self_resumes, resume_id, change_description) ==
    IF get(self_resumes, resume_id) = <<>> THEN self_resumes
    ELSE LET resume == get(self_resumes, resume_id)[1]
         IN  LET version ==
                     [ version |-> resume.version + 1,
                       changes |-> IF Truthy(change_description)
                                   THEN change_description
                                   ELSE "Version snapshot",
                       resume_data |-> Resume_dict(resume) ]
             IN  DictPut(self_resumes, resume_id,
                         [resume EXCEPT !.version = resume.version + 1,
                                        !.versions = resume.versions \o <<version>>])

\* create_version, lines 76-96: the dict after the call (unchanged when
\* the id is not stored and the call returns None).
create_version(self_resumes, resume_id, change_description) ==
    IF get(self_resumes, resume_id) = <<>> THEN self_resumes
    ELSE LET resume == get(self_resumes, resume_id)[1]
         IN  LET version ==
                     [ version |-> resume.version,
                       changes |-> IF Truthy(change_description)
                                   THEN change_description
                                   ELSE "Version snapshot",
                       resume_data |-> Resume_dict(resume) ]
             IN  DictPut(self_resumes, resume_id,
                         [resume EXCEPT !.version = resume.version + 1,
                                        !.versions = resume.versions \o <<version>>])

\* delete, lines 98-103: the dict after the call.
delete(self_resumes, resume_id) ==
    [x \in (DOMAIN self_resumes) \ {resume_id} |-> self_resumes[x]]

(***************************************************************************)
(* The store behind the routes: upload, create_version, update_resume,     *)
(* delete_resume, get_version, and the scoring components called on a      *)
(* stored resume (api/routes.py)                                           *)
(***************************************************************************)

\* Most resumes uploaded, and the highest version a resume is taken to.
MaxResumes == 2
MaxVersion == 3

\* The ids of the resumes, in the order of their upload: uuid4 gives each
\* upload an id of its own.
ResumeIds == <<"r1", "r2", "r3", "r4">>

\* What the uploaded resumes hold: an email, a text and two experience
\* entries, the older one first.
StoreContents ==
    { Resume("jane@x.com", None, NoText, <<>>,
             Text(<<"Experience", NL, "Education", NL, "Skills">>),
             << Entry(<<"2019">>, "2023", <<>>),
                Entry(<<"2020">>, None, <<>>) >>) }

\* The metadata of the update requests; None leaves the field as it is.
Industries == {None, "tech"}
TagLists == {None, <<>>, <<"ml">>}

\* The change descriptions of the version requests.
ChangeDescriptions == {None, "edited"}

InitStore ==
    /\ resumes = EmptyDict
    /\ next_id = 0
    /\ recorded = EmptyDict
    /\ getOut = <<>>
    /\ callOut = <<>>
    /\ CleanIdle
    /\ ParseIdle
    /\ ExpIdle
    /\ AnaIdle
    /\ MatchIdle
    /\ GapIdle
    /\ ScoreIdle
    /\ FmtIdle
    /\ SkillIdle

\* upload_resume, routes.py lines 165-169: a freshly parsed resume is
\* saved.
Upload ==
    /\ next_id < MaxResumes
    /\ \E content \in StoreContents :
           resumes' = save(resumes, NewResume(ResumeIds[next_id + 1], content),
                           FALSE, FALSE, None)
    /\ next_id' = next_id + 1
    /\ getOut' = <<>>
    /\ callOut' = <<>>
    /\ UNCHANGED <<recorded, cleanVars, parseVars, expVars, anaVars, matchVars,
                   gapVars, scoreVars, fmtVars, skillVars>>

\* create_version, routes.py lines 408-426, for a stored resume.  The
\* industry and tags of the state that the snapshot records are noted.
CreateVersion ==
    /\ \E resume_id \in DOMAIN resumes, change_description \in ChangeDescriptions :
           /\ resumes[resume_id].version < MaxVersion
           /\ resumes' = create_version(resumes, resume_id, change_description)
           /\ recorded' = DictPut(recorded,
                                  <<resume_id, resumes[resume_id].version>>,
                                  [ industry |-> resumes[resume_id].industry,
                                    tags |-> resumes[resume_id].tags ])
    /\ getOut' = <<>>
    /\ callOut' = <<>>
    /\ UNCHANGED <<next_id, cleanVars, parseVars, expVars, anaVars, matchVars,
                   gapVars, scoreVars, fmtVars, skillVars>>

\* update_resume with snapshots that share the industry and the tags of
\* the resume: the edit shows in the history too.
UpdateResumeShared ==
    /\ \E resume_id \in DOMAIN resumes, industry \in Industries,
          tags \in TagLists :
           LET resume == resumes[resume_id]
               new_industry == IF industry # None THEN industry
                               ELSE resume.industry
               new_tags == IF tags # None THEN tags ELSE resume.tags
           IN  resumes' =
                   [resumes EXCEPT ![resume_id] =
                       [resume EXCEPT
                           !.industry = new_industry,
                           !.tags = new_tags,
                           !.versions =
                               [k \in 1..Len(resume.versions) |->
                                   [resume.versions[k] EXCEPT
                                       !.resume_data.industry = new_industry,
                                       !.resume_data.tags = new_tags]]]]
    /\ getOut' = <<>>
    /\ callOut' = <<>>
    /\ UNCHANGED <<next_id, recorded, cleanVars, parseVars, expVars, anaVars,
                   matchVars, gapVars, scoreVars, fmtVars, skillVars>>

\* update_resume, routes.py lines 464-486: the stored object is edited and
\* saved.
UpdateResume ==
    /\ \E resume_id \in DOMAIN resumes, industry \in Industries,
          tags \in TagLists :
           LET edited ==
                   [resumes EXCEPT
                       ![resume_id].industry =
                           IF industry # None THEN industry ELSE @,
                       ![resume_id].tags = IF tags # None THEN tags ELSE @]
           IN  resumes' = save(edited, edited[resume_id], TRUE, FALSE, None)
    /\ getOut' = <<>>
    /\ callOut' = <<>>
    /\ UNCHANGED <<next_id, recorded, cleanVars, parseVars, expVars, anaVars,
                   matchVars, gapVars, scoreVars, fmtVars, skillVars>>

\* delete_resume, routes.py lines 308-314, for an id that was given out.
DeleteResume ==
    /\ \E k \in 1..next_id :
           /\ resumes' = delete(resumes, ResumeIds[k])
           /\ recorded' = [key \in {x \in DOMAIN recorded : x[1] # ResumeIds[k]}
                              |-> recorded[key]]
    /\ getOut' = <<>>
    /\ callOut' = <<>>
    /\ UNCHANGED <<next_id, cleanVars, parseVars, expVars, anaVars, matchVars,
                   gapVars, scoreVars, fmtVars, skillVars>>

\* get_version, routes.py lines 443-446, for any id and any number.
GetVersion ==
    /\ \E k \in 1..MaxResumes, version \in 0..(MaxVersion + 1) :
           getOut' = <<[ resume_id |-> ResumeIds[k], version |-> version,
                         result |-> get_version(resumes, ResumeIds[k], version) ]>>
    /\ callOut' = <<>>
    /\ UNCHANGED <<resumes, next_id, recorded, cleanVars, parseVars, expVars,
                   anaVars, matchVars, gapVars, scoreVars, fmtVars, skillVars>>

\* The scoring components, by the name of the method called.
ScoringCalls ==
    { "analyze", "optimize", "analyze_gaps", "match", "format_optimize",
      "get_formatting_suggestions" }

\* The job description of the requests.
StoreJob == <<"Skills", ":", "Python", ",", "Docker", ",", "Kubernetes">>

\* What the call returns.
CallResult(op, resume, hash_seed) ==
    CASE op = "analyze" -> analyze(resume)
      [] op = "optimize" -> optimize(resume, StoreJob, hash_seed)
      [] op = "analyze_gaps" -> analyze_gaps(resume, StoreJob, hash_seed)
      [] op = "match" -> match(resume, StoreJob, hash_seed)
      [] op = "format_optimize" -> FormatOptimizer_optimize(resume)
      [] op = "get_formatting_suggestions" -> get_formatting_suggestions(resume)

\* The object passed in, as the call leaves it.  FormatOptimizer.optimize
\* works on _create_optimized_copy(resume), which is the object passed in
\* (format_optimizer.py lines 21 and 45); no method of the six assigns to
\* a field of the resume or changes one of its lists.
ResumeAfterCall(op, resume) ==
    IF op = "format_optimize"
    THEN FormatOptimizer_optimize(resume).optimized_resume
    ELSE resume

\* One of the routes analyze_resume, optimize_ats, match_job,
\* improve_format, get_suggestions (routes.py lines 213-300 and 347-358)
\* or a call of analyze_gaps: the component is called on the object that
\* storage.get returns.
ScoringCall ==
    /\ \E resume_id \in DOMAIN resumes, op \in ScoringCalls,
          hash_seed \in HashSeeds :
           /\ resumes' = [resumes EXCEPT
                             ![resume_id] = ResumeAfterCall(op, resumes[resume_id])]
           /\ callOut' = <<[ op |-> op, resume_id |-> resume_id,
                             before |-> resumes[resume_id],
                             result |-> CallResult(op, resumes[resume_id],
                                                   hash_seed) ]>>
    /\ getOut' = <<>>
    /\ UNCHANGED <<next_id, recorded, cleanVars, parseVars, expVars, anaVars,
                   matchVars, gapVars, scoreVars, fmtVars, skillVars>>

\* save(resume, create_version=True, ...) for a stored id (storage.py
\* lines 16-40), with the object that get returns for the id or with a
\* resume parsed anew and given that id.  The stored record before the
\* call is noted.
SaveVersion ==
    /\ \E resume_id \in DOMAIN resumes, same_object \in BOOLEAN,
          content \in StoreContents,
          change_description \in ChangeDescriptions :
           /\ resumes[resume_id].version < MaxVersion
           /\ resumes' = save(resumes,
                              IF same_object THEN get(resumes, resume_id)[1]
                              ELSE NewResume(resume_id, content),
                              same_object, TRUE, change_description)
           /\ callOut' = <<[ op |-> "save", resume_id |-> resume_id,
                             same_object |-> same_object,
                             before |-> resumes[resume_id] ]>>
    /\ getOut' = <<>>
    /\ UNCHANGED <<next_id, recorded, cleanVars, parseVars, expVars, anaVars,
                   matchVars, gapVars, scoreVars, fmtVars, skillVars>>

\* The routes that keep the versions of the stored resumes.
NextStore ==
    \/ Upload
    \/ CreateVersion
    \/ UpdateResume
    \/ DeleteResume
    \/ GetVersion

SpecStore == InitStore /\ [][NextStore]_vars

\* The routes that score the stored resumes, and the one that edits them.
NextCalls ==
    \/ Upload
    \/ UpdateResume
    \/ ScoringCall

SpecCalls == InitStore /\ [][NextCalls]_vars

\* The store used through save alone: uploads, and saves that ask for a
\* version.
NextSave ==
    \/ Upload
    \/ SaveVersion

SpecSave == InitStore /\ [][NextSave]_vars

(***************************************************************************)
(* Claims about the store                                                  *)
(***************************************************************************)

\* The history holds one snapshot for each version below the resume's own,
\* in ascending order.
WellFormedHistory(resume) ==
    /\ resume.version >= 1
    /\ Len(resume.versions) = resume.version - 1
    /\ \A k \in 1..Len(resume.versions) : resume.versions[k].version = k

\* The step stores a new version of the resume: the version number grows
\* by 1 and one snapshot is appended to the history.
OneVersionMore(resume_id) ==
    /\ resume_id \in DOMAIN resumes'
    /\ resumes'[resume_id].version = resumes[resume_id].version + 1
    /\ Len(resumes'[resume_id].versions) = Len(resumes[resume_id].versions) + 1
    /\ SubSeq(resumes'[resume_id].versions, 1, Len(resumes[resume_id].versions))
           = resumes[resume_id].versions

\* C27: version history invariant of the store: after any sequence of
\* uploads, create_version calls, metadata updates and deletes, every
\* stored resume has a version v >= 1 and a history with exactly one
\* snapshot for each version 1..v-1, in ascending order; a resume just
\* uploaded has version 1 and an empty history; each create_version
\* raises v by exactly 1 and appends exactly one snapshot.
C27_VersionHistory ==
    /\ [](\A resume_id \in DOMAIN resumes :
              WellFormedHistory(resumes[resume_id]))
    /\ [][ /\ \A resume_id \in (DOMAIN resumes') \ (DOMAIN resumes) :
                  /\ resumes'[resume_id].version = 1
                  /\ resumes'[resume_id].versions = <<>>
           /\ CreateVersion =>
                  \E resume_id \in DOMAIN resumes :
                      /\ OneVersionMore(resume_id)
                      /\ \A other \in (DOMAIN resumes) \ {resume_id} :
                             /\ other \in DOMAIN resumes'
                             /\ resumes'[other] = resumes[other] ]_vars

\* A resume was uploaded and edited, and is at version 3 with the
\* snapshots of the versions 1 and 2, taken before and after an edit.
C27_Witness ==
    \E resume_id \in DOMAIN resumes :
        /\ resumes[resume_id].version = 3
        /\ Len(resumes[resume_id].versions) = 2
        /\ resumes[resume_id].versions[1].resume_data.industry = None
        /\ resumes[resume_id].versions[2].resume_data.industry = "tech"

\* C28: for a stored resume with current version v, reached by uploads,
\* create_version calls and metadata updates, get_version(id, k) returns a
\* record whose version field is k for every k in 1..v, and None for
\* every other k and for every id that is not stored, a deleted one
\* included.
C28_GetVersion ==
    getOut # <<>> =>
        LET asked == getOut[1]
        IN  IF /\ asked.resume_id \in DOMAIN resumes
               /\ asked.version \in 1..resumes[asked.resume_id].version
            THEN /\ asked.result # <<>>
                 /\ asked.result[1].version = asked.version
            ELSE asked.result = <<>>

\* Version 3 of a resume at version 3 was asked for and returned, while
\* the other resume was uploaded and deleted.
C28_Witness ==
    /\ getOut # <<>>
    /\ getOut[1].resume_id \in DOMAIN resumes
    /\ resumes[getOut[1].resume_id].version = 3
    /\ getOut[1].version = 3
    /\ getOut[1].result # <<>>
    /\ getOut[1].result[1].version = 3
    /\ next_id = 2
    /\ Cardinality(DOMAIN resumes) = 1

\* C29: snapshots are frozen: once create_version has recorded a snapshot
\* of version k, later metadata updates and later create_version calls on
\* the resume leave the industry and the tags that get_version(id, k)
\* returns as they were when the snapshot was recorded.
C29_SnapshotsFrozen ==
    (getOut # <<>> /\ <<getOut[1].resume_id, getOut[1].version>> \in DOMAIN recorded)
        => LET then == recorded[<<getOut[1].resume_id, getOut[1].version>>]
           IN  /\ getOut[1].result # <<>>
               /\ getOut[1].result[1].industry = then.industry
               /\ getOut[1].result[1].tags = then.tags

\* Version 1 was recorded without industry and tags; the resume was then
\* given both, version 2 was recorded, and get_version(id, 1) returned the
\* record without industry and tags.
C29_Witness ==
    /\ getOut # <<>>
    /\ getOut[1].version = 1
    /\ getOut[1].resume_id \in DOMAIN resumes
    /\ resumes[getOut[1].resume_id].version = 3
    /\ resumes[getOut[1].resume_id].industry = "tech"
    /\ resumes[getOut[1].resume_id].tags = <<"ml">>
    /\ <<getOut[1].resume_id, 1>> \in DOMAIN recorded
    /\ getOut[1].result # <<>>
    /\ getOut[1].result[1].industry = None
    /\ getOut[1].result[1].tags = <<>>

\* C21: the scoring components are read-only: after analyze, optimize,
\* analyze_gaps, match, FormatOptimizer.optimize and
\* get_formatting_suggestions, every field of the resume passed in is as it
\* was before the call, the order of the experience entries and the record
\* that the store holds included.
C21_ReadOnly ==
    callOut # <<>> =>
        /\ callOut[1].resume_id \in DOMAIN resumes
        /\ resumes[callOut[1].resume_id] = callOut[1].before
        /\ callOut[1].op = "format_optimize" =>
               callOut[1].result.optimized_resume = callOut[1].before

\* FormatOptimizer.optimize was called on a stored resume whose entries
\* are not in reverse chronological order, and reported it.
C21_Witness ==
    /\ callOut # <<>>
    /\ callOut[1].op = "format_optimize"
    /\ OutOfOrder(callOut[1].before.experience)
    /\ callOut[1].before.industry = "tech"
    /\ \E k \in 1..Len(callOut[1].result.improvements_applied) :
           callOut[1].result.improvements_applied[k]
               = <<"Ensure experience is listed in reverse chronological order (most recent first)">>

\* C26: save(resume, create_version=True) for an id that is stored records
\* one snapshot of the state stored before, labelled with the version
\* number n stored before, and stores the resume with version n + 1, also
\* when the resume passed in is the object that get returned for the id.
C26_SaveSnapshot ==
    (callOut # <<>> /\ callOut[1].op = "save") =>
        LET before == callOut[1].before
            stored == resumes[callOut[1].resume_id]
        IN  /\ stored.version = before.version + 1
            /\ Len(stored.versions) = Len(before.versions) + 1
            /\ SubSeq(stored.versions, 1, Len(before.versions)) = before.versions
            /\ Last(stored.versions).version = before.version
            /\ Last(stored.versions).resume_data = Resume_dict(before)

(***************************************************************************)
(* Claims about the analyzer                                               *)
(***************************************************************************)

\* C1: analyze returns an analysis record (ats_score, strengths,
\* weaknesses, metrics, keyword_analysis) and raises nothing, for every
\* resume, whatever its experience entries and their description lines.
C1_AnalyzeNeverRaises ==
    (anaOut # <<>> /\ anaOut[1].op = "analyze") =>
        /\ anaOut[1].result.raised = None
        /\ {"ats_score", "strengths", "weaknesses", "metrics",
            "keyword_analysis"} \subseteq DOMAIN anaOut[1].result

\* The resume was scored, a line was appended, and it was scored again.
Rescored ==
    anaPrev # <<>> /\ anaOut # <<>> /\ anaOut[1].op = "score"

\* C4, as claimed: one more achievement line never lowers the score.
C4_Monotone ==
    Rescored => anaOut[1].result >= anaPrev[1].ats_score

\* C4, amended: one more achievement line never lowers the score, unless
\* it brings the average description length from above 50 characters to
\* 50 or below.
C4_MonotoneWhileAverageHolds ==
    (/\ Rescored
     /\ ~(/\ AvgAbove(anaPrev[1].average, 50)
          /\ ~AvgAbove(avg_description_length(anaIn), 50)))
        => anaOut[1].result >= anaPrev[1].ats_score

\* An achievement line was appended, the average stayed above 50, and the
\* score rose.
C4_Witness ==
    /\ Rescored
    /\ AvgAbove(anaPrev[1].average, 50)
    /\ AvgAbove(avg_description_length(anaIn), 50)
    /\ anaOut[1].result > anaPrev[1].ats_score

\* C5: the score that _calculate_ats_score returns is an integer from 0
\* to 100.
C5_ScoreBounds ==
    (anaOut # <<>> /\ anaOut[1].op = "score") => anaOut[1].result \in 0..100

\* A resume that earns every point of the rubric was scored.
C5_Witness ==
    anaOut # <<>> /\ anaOut[1].op = "score" /\ anaOut[1].result = 100

\* A record without email, phone, summary, experience and skills, whose
\* text has length 0.
IsEmptyRecord(resume) ==
    /\ ~Truthy(resume.contact_info.email)
    /\ ~Truthy(resume.contact_info.phone)
    /\ ~TruthyText(resume.summary)
    /\ resume.experience = <<>>
    /\ resume.skills = <<>>
    /\ TextLength(resume) = 0

\* C15: for a record without email, phone, summary, experience and
\* skills whose text has length 0, analyze returns an ats_score of 0 and
\* weaknesses that hold "Missing professional summary", "No work
\* experience listed", "Missing email address" and "Missing phone number".
C15_EmptyRecordScenario ==
    (anaOut # <<>> /\ anaOut[1].op = "analyze" /\ IsEmptyRecord(anaIn)) =>
        /\ anaOut[1].result.raised = None
        /\ anaOut[1].result.ats_score = 0
        /\ { <<"Missing professional summary">>,
             <<"No work experience listed">>,
             <<"Missing email address">>,
             <<"Missing phone number">> }
               \subseteq Elements(anaOut[1].result.weaknesses)

\* The record parsed from an empty text was analyzed and scored 0.
C15_Witness ==
    /\ anaIn = EmptyTextRecord
    /\ IsEmptyRecord(anaIn)
    /\ anaOut # <<>>
    /\ anaOut[1].op = "analyze"
    /\ anaOut[1].result.raised = None
    /\ anaOut[1].result.ats_score = 0

\* The points of one line of the rubric.
Award(holds, points) == IF holds THEN points ELSE 0

\* The rubric as the design states it, from the inputs it names.
Rubric(email, phone, summary, entries, skills, achievements, long_average,
       length) ==
    Award(email, 10) + Award(phone, 10) + Award(summary, 10)
    + Award(entries >= 1, 10) + Award(skills >= 5, 10)
    + Award(achievements >= 3, 15) + Award(achievements \in {1, 2}, 8)
    + Award(long_average, 15)
    + Award(500 <= length /\ length <= 2000, 20)
    + Award(300 <= length /\ length < 500, 10)
    + Award(2000 < length /\ length <= 3000, 10)

\* C18: the score that _calculate_ats_score returns is the sum of the
\* awards of the rubric: 10 for an email, 10 for a phone, 10 for a
\* summary, 10 for an experience entry, 10 for five skills or more, 15 for
\* three achievements or more and 8 for one or two, 15 for an average
\* description longer than 50, 20 for a text of 500 to 2000 characters and
\* 10 for one of 300 to 499 or 2001 to 3000.
C18_AdditiveRubric ==
    (anaOut # <<>> /\ anaOut[1].op = "score") =>
        LET metrics == calculate_metrics(anaIn)
            average == metrics.average_description_length
        IN  anaOut[1].result
                = Rubric(anaIn.contact_info.email \notin {None, ""},
                         anaIn.contact_info.phone \notin {None, ""},
                         anaIn.summary \notin {NoText, Text(<<>>)},
                         Len(anaIn.experience),
                         Len(anaIn.skills),
                         metrics.quantifiable_achievements,
                         average.count > 0 /\ average.sum > 50 * average.count,
                         metrics.text_length)

\* A resume with an email and a text of exactly 3000 characters, and
\* nothing else that earns points, scored 20.
C18_Witness ==
    /\ anaOut # <<>>
    /\ anaOut[1].op = "score"
    /\ TextLength(anaIn) = 3000
    /\ Truthy(anaIn.contact_info.email)
    /\ anaOut[1].result = 20

\* C22: the quantifiable_achievements metric equals the count that the
\* quantifiable-achievements strength message reports (0 when there is no
\* such message): both count the description lines with digits and %,
\* $ and digits, digits and +, or digits and one of years, months, people,
\* projects, clients, users.
C22_MetricEqualsStrengthCount ==
    (anaOut # <<>> /\ anaOut[1].op = "metrics") =>
        LET strengths == analyze_quantifiable_achievements(anaIn)
        IN  anaOut[1].result.quantifiable_achievements
                = IF strengths = <<>> THEN 0 ELSE strengths[1][2]

\* The pairs of a strength that states an element present or complete and
\* a weakness that reports that element missing.
ConflictingMessages ==
    { << <<"Contact information complete">>, <<"Missing email address">> >>,
      << <<"Contact information complete">>, <<"Missing phone number">> >>,
      << <<"Professional summary present">>,
         <<"Missing professional summary">> >>,
      << <<"Adequate work experience listed">>,
         <<"No work experience listed">> >>,
      << <<"Good variety of skills">>,
         <<"Limited skills listed (consider adding more)">> >> }

\* C24: no analysis reports a strength that states an element present or
\* complete together with a weakness that reports the same element
\* missing: not "Contact information complete" with "Missing phone number"
\* or "Missing email address", not "Professional summary present" with
\* "Missing professional summary".
C24_NoConflict ==
    (/\ anaOut # <<>>
     /\ anaOut[1].op = "analyze"
     /\ anaOut[1].result.raised = None) =>
        \A pair \in ConflictingMessages :
            ~(/\ pair[1] \in Elements(anaOut[1].result.strengths)
              /\ pair[2] \in Elements(anaOut[1].result.weaknesses))

\* The year of a date of the extractor, YYYY or Month YYYY.
YearOf(date) == YearValue(Last(date))

\* The sum over the entries of end year minus start year, the end year of
\* an entry without end_date being the caller's current year.
RECURSIVE YearsSummed(_, _)
YearsSummed(experience, current_year) ==
    IF experience = <<>> THEN 0
    ELSE (IF Head(experience).end_date = None THEN current_year
          ELSE YearValue(Head(experience).end_date))
         - YearOf(Head(experience).start_date)
         + YearsSummed(Tail(experience), current_year)

\* The years a caller may pass as the current year.
CallerYears == {2024, 2026}

\* C10: total_experience_years is the sum over the entries of end year
\* minus start year, for YYYY and Month YYYY start dates, the end year of
\* an entry without end_date being the caller's current year; overlapping
\* periods are summed.
C10_ExperienceYears ==
    (anaOut # <<>> /\ anaOut[1].op = "metrics") =>
        \A current_year \in CallerYears :
            anaOut[1].result.total_experience_years
                = YearsSummed(anaIn.experience, current_year)

(***************************************************************************)
(* Claims about the matching                                               *)
(***************************************************************************)

\* What the claim of determinism compares in the result of a run.
Observed(run) ==
    IF run.op = "optimize"
    THEN <<run.result.match_score, run.result.suggestions>>
    ELSE <<run.result.overall_match_score, run.result.recommendations,
           run.result.ats_analysis.match_score,
           run.result.ats_analysis.suggestions>>

\* C8: any two runs of optimize, and any two runs of match, on the same
\* resume and job description return the same match_score,
\* overall_match_score, suggestions and recommendations, whatever the order
\* the intermediate sets iterate in.
C8_Deterministic ==
    \A i, j \in 1..Len(matchOut) :
        matchOut[i].op = matchOut[j].op
            => Observed(matchOut[i]) = Observed(matchOut[j])

\* The match score that a run returned, <<>> for None.
MatchScoreOf(run) ==
    IF run.op = "optimize" THEN run.result.match_score
    ELSE run.result.ats_analysis.match_score

Abs(n) == IF n < 0 THEN 0 - n ELSE n

\* C9: the match score is 100 * found / total rounded to the nearest
\* integer, total being the number of keywords extracted from the job
\* description and found the number of them in the lower-cased resume
\* text, and 0 when no keyword is extracted.
C9_MatchScoreRounded ==
    \A k \in 1..Len(matchOut) :
        LET job_keywords == extract_keywords(matchIn.job_description,
                                             matchOut[k].hash_seed)
            total == Len(job_keywords)
            found == KeywordMatches(matchIn.resume, job_keywords)
            score == MatchScoreOf(matchOut[k])
        IN  score # <<>> =>
                IF total = 0 THEN score[1] = 0
                ELSE 2 * Abs(100 * found - score[1] * total) <= total

\* The bounds of a result of match that do not depend on the job
\* description: the overall score is an integer from 0 to 100, the skills
\* match_percentage lies between 0 and 100 (in hundredths), and at most 20
\* keywords are extracted from the job description.
MatchBounds(run) ==
    /\ run.result.overall_match_score \in 0..100
    /\ run.result.skills_analysis.match_percentage \in 0..10000
    /\ Len(extract_keywords(matchIn.job_description, run.hash_seed)) <= 20

\* C30, as claimed: for every record and job description, match returns
\* an overall_match_score in 0..100, a skills match_percentage in [0, 100]
\* and an ATS match_score in 0..100 computed over at most 20 keywords.
C30_ScoreBounds ==
    \A k \in 1..Len(matchOut) :
        matchOut[k].op = "match" =>
            /\ MatchBounds(matchOut[k])
            /\ MatchScoreOf(matchOut[k]) # <<>>
            /\ MatchScoreOf(matchOut[k])[1] \in 0..100

\* C30, amended: the same bounds, the ATS match_score being an integer in
\* 0..100 for a job description that is not empty and None for the empty
\* one.
C30_ScoreBoundsGivenJob ==
    \A k \in 1..Len(matchOut) :
        matchOut[k].op = "match" =>
            /\ MatchBounds(matchOut[k])
            /\ IF matchIn.job_description = <<>>
               THEN MatchScoreOf(matchOut[k]) = <<>>
               ELSE /\ MatchScoreOf(matchOut[k]) # <<>>
                    /\ MatchScoreOf(matchOut[k])[1] \in 0..100

\* A job description with more than 20 keywords was matched: 20 of them
\* were kept, some were found in the resume, and the scores are positive.
C30_Witness ==
    \E k \in 1..Len(matchOut) :
        /\ matchOut[k].op = "match"
        /\ Len(extract_keywords_uncapped(matchIn.job_description,
                                         matchOut[k].hash_seed)) > 20
        /\ Len(extract_keywords(matchIn.job_description,
                                matchOut[k].hash_seed)) = 20
        /\ MatchScoreOf(matchOut[k]) # <<>>
        /\ MatchScoreOf(matchOut[k])[1] > 0
        /\ matchOut[k].result.overall_match_score > 0

(***************************************************************************)
(* Claims about the segmenter and the parser                               *)
(***************************************************************************)

\* The section a line is the header of, as the design states it: the line,
\* trimmed, in any letter case and with an optional colon, is one of the
\* header words.  None for any other line.
HeaderOf(line) ==
    LET words == IF line # <<>> /\ Last(line) = ":"
                 THEN SubSeq(line, 1, Len(line) - 1) ELSE line
        hits == {k \in 1..Len(SectionOrder) :
                    LowerSeq(words) \in SectionPatterns[SectionOrder[k]]}
    IN  IF hits = {} THEN None ELSE SectionOrder[First(hits)]

\* The lines of the text that are no header line, in their order.
ContentLines(text) ==
    SelectSeq(SplitOn(text, NL), LAMBDA line : HeaderOf(line) = None)

\* The section names of the text's header lines, in the order of their
\* first occurrence.
RECURSIVE HeadersInOrder(_, _)
HeadersInOrder(lines, seen) ==
    IF lines = <<>> THEN <<>>
    ELSE LET h == HeaderOf(Head(lines))
         IN  IF h = None \/ h \in seen THEN HeadersInOrder(Tail(lines), seen)
             ELSE <<h>> \o HeadersInOrder(Tail(lines), seen \cup {h})

\* The lines of the buffers of the map, the preamble first and then the
\* sections in the order given.
RECURSIVE BufferLines(_, _)
BufferLines(sections, names) ==
    IF names = <<>> THEN <<>>
    ELSE (IF Head(names) \in DOMAIN sections
          THEN SplitOn(sections[Head(names)], NL) ELSE <<>>)
         \o BufferLines(sections, Tail(names))

\* C2: segmentation coverage: every line that is no header line is in
\* exactly one buffer of the map that split_into_sections returns, and the
\* buffers, concatenated in the order of the text, are the text without
\* its header lines.
C2_SegmentationCoverage ==
    segOut # <<>> =>
        BufferLines(segOut[1],
                    <<"header">> \o HeadersInOrder(SplitOn(parseIn, NL), {}))
            = ContentLines(parseIn)

\* The lines that follow the header line at place i, up to the next header
\* line or the end of the text.
FollowingLines(lines, i) ==
    LET later == {j \in (i + 1)..Len(lines) : HeaderOf(lines[j]) # None}
        stop == IF later = {} THEN Len(lines) + 1
                ELSE CHOOSE j \in later : \A k \in later : j <= k
    IN  SubSeq(lines, i + 1, stop - 1)

\* The header line at place i is the last one of its section.
LastHeaderOfSection(lines, i) ==
    \A j \in (i + 1)..Len(lines) : HeaderOf(lines[j]) # HeaderOf(lines[i])

\* C17: header transition: a line that is a header word in any letter
\* case, with or without a colon, is appended to no buffer; the map holds
\* the key of its section with the non-header lines that follow it; and
\* the map holds no section whose header does not occur in the text.
C17_HeaderTransition ==
    segOut # <<>> =>
        LET lines == SplitOn(parseIn, NL)
            sections == segOut[1]
        IN  /\ \A i \in 1..Len(lines) :
                   HeaderOf(lines[i]) # None =>
                       /\ \A name \in DOMAIN sections :
                              lines[i] \notin Elements(SplitOn(sections[name], NL))
                       /\ (/\ LastHeaderOfSection(lines, i)
                           /\ FollowingLines(lines, i) # <<>>) =>
                              /\ HeaderOf(lines[i]) \in DOMAIN sections
                              /\ SplitOn(sections[HeaderOf(lines[i])], NL)
                                     = FollowingLines(lines, i)
            /\ \A name \in DOMAIN sections :
                   name = "header"
                   \/ \E i \in 1..Len(lines) : HeaderOf(lines[i]) = name

\* C6: the scenario text yields exactly one Experience, with position
\* Engineer, company Acme and current true, and exactly three skills.
C6_Scenario ==
    (parseIn = ScenarioText /\ parseOut # <<>>) =>
        /\ parseOut[1].raised = None
        /\ Len(parseOut[1].experience) = 1
        /\ parseOut[1].experience[1].position = <<"Engineer">>
        /\ parseOut[1].experience[1].company = <<"Acme">>
        /\ parseOut[1].experience[1].current = TRUE
        /\ Len(parseOut[1].skills) = 3

(***************************************************************************)
(* Specification of clean_text                                             *)
(***************************************************************************)

InitClean ==
    /\ cleanIn \in SeqsUpTo(CleanAlphabet, MaxTextLen)
    /\ cleanOut = <<>>
    /\ ParseIdle
    /\ ExpIdle
    /\ AnaIdle
    /\ MatchIdle
    /\ GapIdle
    /\ ScoreIdle
    /\ FmtIdle
    /\ SkillIdle
    /\ StoreIdle

\* clean_text(t), then clean_text of that result.
Clean ==
    /\ Len(cleanOut) < 2
    /\ cleanOut' = Append(cleanOut,
                          clean_text(IF cleanOut = <<>> THEN cleanIn
                                     ELSE Last(cleanOut)))
    /\ UNCHANGED <<cleanIn, parseVars, expVars, anaVars, matchVars, gapVars,
                   scoreVars, fmtVars, skillVars, storeVars>>

NextClean == Clean

SpecClean == InitClean /\ [][NextClean]_vars

\* C3: normalization is idempotent: clean_text(clean_text(t)) = clean_text(t)
\* for every text t, also when a removed character stands between two
\* whitespace characters.
C3_Idempotent ==
    Len(cleanOut) = 2 => cleanOut[2] = cleanOut[1]

====
